---- MODULE Spec2Model ----
(***************************************************************************)
(* A model of the allocator_api crate: the AllocRef trait with its default *)
(* methods (src/src/libcore/alloc.rs), the Global allocator                *)
(* (src/src/lib.rs), Box's destructor (src/src/liballoc/boxed.rs) and the  *)
(* raw growable buffer built on them.                                      *)
(*                                                                         *)
(* Memory is a finite set of blocks.  A pointer is a natural number: NULL, *)
(* the address of a block (1..MaxBlocks), or a dangling non-null address   *)
(* outside the heap.  A byte is 0 or 1 (zero / not zero).  An address is   *)
(* handed out at most once, so a block that was deallocated stays          *)
(* recognisable as such.                                                   *)
(***************************************************************************)
EXTENDS Integers, Sequences, FiniteSets, TLC

VARIABLES
    heap,   \* the memory blocks: Ptrs -> block record
    self,   \* the allocator instance the client of SpecAlloc holds
    buf,    \* the raw buffer: its pointer, capacity, allocator, element type
    box,    \* the Box<[T], A> the raw buffer was converted into
    proc,   \* "running"; "aborted" once a call that never returns ended
            \* the process; "looping" once a thread is in default_oom_hook
    HOOK,   \* the static HOOK: NULL or the registered OOM hook
    pending,\* history: the hook of the latest set_oom_hook that no
            \* take_oom_hook has followed, NULL when there is none
    last,   \* the most recent operation: its arguments, the block it was
            \* given as that was before, the calls it made in order, and
            \* its result
    thr     \* the threads of a multi-threaded client: for each its position,
            \* its locals and what it has done; <<>> for a single thread

vars == <<heap, self, buf, box, proc, HOOK, pending, last, thr>>

\* What the clients of the allocator methods leave alone, and what the
\* raw buffer leaves alone.
allocFrame  == <<buf, box, proc, HOOK, pending, thr>>
rawvecFrame == <<self, HOOK, pending, thr>>
hookFrame   == <<heap, self, buf, box, thr>>

(***************************************************************************)
(* Bounds of the model.                                                    *)
(***************************************************************************)
MaxBlocks == 3      \* addresses the allocators can hand out
MaxSize   == 2      \* largest block (bytes) a direct client keeps
MaxBytes  == 4      \* largest request (bytes) an allocator can serve
MaxExcess == 1      \* most bytes an allocator returns beyond the request
WordBits  == 3      \* width of usize
NThreads  == 2      \* threads of a multi-threaded client
MaxOps    == 2      \* operations each of these threads starts
MaxLen    == 2      \* most elements of a boxed slice that is cloned

NULL == 0

Ptrs   == 1..MaxBlocks
Allocs == {1, 2}    \* allocator instances; 2 overrides the in-place methods
Aligns == {1, 2}
Byte   == {0, 1}
MaxUsable == MaxBytes + MaxExcess

Min(x, y) == IF x <= y THEN x ELSE y
Max(x, y) == IF x >= y THEN x ELSE y

Layout(s, al) == [size |-> s, align |-> al]

\* NonNull::dangling(): a well-aligned non-null address that is no block.
dangling(al) == MaxBlocks + al

(***************************************************************************)
(* Results.                                                                *)
(***************************************************************************)
Ok(p, s) == [ok |-> TRUE, ptr |-> p, size |-> s]
OkSize(s) == [ok |-> TRUE, size |-> s]
AllocErr == [ok |-> FALSE, err |-> "AllocErr"]
CannotReallocInPlace == [ok |-> FALSE, err |-> "CannotReallocInPlace"]
NoRes == [ok |-> FALSE, err |-> "none"]

(***************************************************************************)
(* Blocks.  size: the size of the layout the block was most recently       *)
(* allocated or resized for; usable: the size the allocator returned.      *)
(***************************************************************************)
Unused == [st |-> "unused", by |-> 0, size |-> 0, usable |-> 0, align |-> 1,
           bytes |-> <<>>]
Freed  == [st |-> "freed", by |-> 0, size |-> 0, usable |-> 0, align |-> 1,
           bytes |-> <<>>]

IsLive(h, p) == p \in Ptrs /\ h[p].st = "live"

\* A layout fits a block: same alignment, and a size between the size last
\* requested for the block and the size the allocator returned for it.
Fits(blk, layout) ==
    /\ layout.align = blk.align
    /\ blk.size <= layout.size
    /\ layout.size <= blk.usable

\* Which allocator instances override the in-place methods.
Overrides(a) == a = 2

\* What the environment decides during one operation: whether the allocator
\* can serve a request, how much excess it returns, what the uninitialised
\* memory holds, and whether an overridden in-place method succeeds.
\* Uninitialised memory holds one of two patterns, 1 1 1 .. or 1 0 1 .. .
Garbage == {[i \in 1..MaxUsable |-> 1], [i \in 1..MaxUsable |-> i % 2]}

Oracles == [ok : BOOLEAN, excess : {0, MaxExcess}, garbage : Garbage,
            inplace : BOOLEAN]

\* The choices that matter to a call that only allocates, and to a call of
\* an in-place method: the parts of an oracle that are not looked at are
\* held fixed.
NoGarbage == [i \in 1..MaxUsable |-> 1]

OraclesAlloc ==
    {o \in Oracles : /\ ~o.inplace
                     /\ (~o.ok => o.excess = 0 /\ o.garbage = NoGarbage)}

\* The choices that matter to realloc on allocator a: an in-place method
\* that succeeds leaves no allocation to decide, and one that is not
\* overridden has nothing to decide.
OraclesRealloc(a) ==
    {o \in Oracles : /\ (o.inplace => Overrides(a) /\ ~o.ok)
                     /\ (~o.ok /\ ~o.inplace
                            => o.excess = 0 /\ o.garbage = NoGarbage)}

OraclesInPlace(a) ==
    {o \in Oracles : /\ ~o.ok
                     /\ (o.inplace => Overrides(a))
                     /\ (~o.inplace => o.excess = 0 /\ o.garbage = NoGarbage)}

\* An execution context: the heap, the calls made so far, the last result.
Cx(h) == [heap |-> h, calls |-> <<>>, res |-> NoRes]

(***************************************************************************)
(* The required methods of AllocRef, as their contracts describe them.     *)
(***************************************************************************)
\* Mutant of alloc: it hands out the lowest address that was never given
\* back, whether or not a block lives there.
alloc_hands_out_live(cx, a, layout, o) ==
    LET free   == {p \in Ptrs : cx.heap[p].st # "freed"}
        served == o.ok /\ free # {} /\ layout.size <= MaxBytes
        p      == CHOOSE q \in free : \A r \in free : q <= r
        usable == layout.size + o.excess
        blk    == [st |-> "live", by |-> a, size |-> layout.size,
                   usable |-> usable, align |-> layout.align,
                   bytes |-> [i \in 1..usable |-> o.garbage[i]]]
        res    == IF served THEN Ok(p, usable) ELSE AllocErr
    IN  [heap  |-> IF served THEN [cx.heap EXCEPT ![p] = blk] ELSE cx.heap,
         calls |-> Append(cx.calls,
                     [f |-> "alloc", a |-> a, layout |-> layout, res |-> res]),
         res   |-> res]

alloc(cx, a, layout, o) ==
    LET free   == {p \in Ptrs : cx.heap[p].st = "unused"}
        served == o.ok /\ free # {} /\ layout.size <= MaxBytes
        p      == CHOOSE q \in free : \A r \in free : q <= r
        usable == layout.size + o.excess
        blk    == [st |-> "live", by |-> a, size |-> layout.size,
                   usable |-> usable, align |-> layout.align,
                   bytes |-> [i \in 1..usable |-> o.garbage[i]]]
        res    == IF served THEN Ok(p, usable) ELSE AllocErr
    IN  [heap  |-> IF served THEN [cx.heap EXCEPT ![p] = blk] ELSE cx.heap,
         calls |-> Append(cx.calls,
                     [f |-> "alloc", a |-> a, layout |-> layout, res |-> res]),
         res   |-> res]

dealloc(cx, a, ptr, layout) ==
    LET live == IsLive(cx.heap, ptr)
    IN  [heap  |-> IF ptr \in Ptrs THEN [cx.heap EXCEPT ![ptr] = Freed]
                   ELSE cx.heap,
         calls |-> Append(cx.calls,
                     [f |-> "dealloc", a |-> a, ptr |-> ptr, layout |-> layout,
                      live |-> live,
                      fit  |-> live /\ Fits(cx.heap[ptr], layout),
                      own  |-> live /\ cx.heap[ptr].by = a]),
         res   |-> cx.res]

\* ptr::copy_nonoverlapping(src, dst, n) on bytes.
copy_nonoverlapping(cx, src, dst, n) ==
    LET s == cx.heap[src].bytes
        d == cx.heap[dst].bytes
    IN  [heap  |-> [cx.heap EXCEPT ![dst].bytes =
                      [i \in 1..Len(d) |->
                          IF i <= n /\ i <= Len(s) THEN s[i] ELSE d[i]]],
         calls |-> Append(cx.calls,
                     [f |-> "copy", src |-> src, dst |-> dst, n |-> n]),
         res   |-> cx.res]

\* ptr.add(off).write_bytes(0, n)
write_bytes(cx, ptr, off, n) ==
    LET d == cx.heap[ptr].bytes
    IN  [heap  |-> [cx.heap EXCEPT ![ptr].bytes =
                      [i \in 1..Len(d) |->
                          IF off < i /\ i <= off + n THEN 0 ELSE d[i]]],
         calls |-> Append(cx.calls,
                     [f |-> "write_bytes", ptr |-> ptr, off |-> off, n |-> n]),
         res   |-> cx.res]

(***************************************************************************)
(* The in-place methods.  grow_in_place and shrink_in_place are the        *)
(* trait's default bodies; impl_grow_in_place and impl_shrink_in_place are *)
(* what an allocator that overrides them may do within their contract.     *)
(***************************************************************************)
\* Mutant of the default grow_in_place: it reports success.
grow_in_place_ok(cx, a, ptr, layout, new_size, o) ==
    [heap  |-> cx.heap,
     calls |-> Append(cx.calls,
                 [f |-> "grow_in_place", ptr |-> ptr, layout |-> layout,
                  new_size |-> new_size, res |-> OkSize(new_size)]),
     res   |-> OkSize(new_size)]

grow_in_place(cx, a, ptr, layout, new_size, o) ==
    [heap  |-> cx.heap,
     calls |-> Append(cx.calls,
                 [f |-> "grow_in_place", ptr |-> ptr, layout |-> layout,
                  new_size |-> new_size, res |-> CannotReallocInPlace]),
     res   |-> CannotReallocInPlace]

shrink_in_place(cx, a, ptr, layout, new_size, o) ==
    [heap  |-> cx.heap,
     calls |-> Append(cx.calls,
                 [f |-> "shrink_in_place", ptr |-> ptr, layout |-> layout,
                  new_size |-> new_size, res |-> CannotReallocInPlace]),
     res   |-> CannotReallocInPlace]

impl_grow_in_place(cx, a, ptr, layout, new_size, o) ==
    LET b      == cx.heap[ptr]
        can    == o.inplace /\ new_size <= MaxBytes
        usable == Max(b.usable, new_size + o.excess)
        res    == IF can THEN OkSize(usable) ELSE CannotReallocInPlace
    IN  [heap  |-> IF can
                   THEN [cx.heap EXCEPT ![ptr] =
                           [b EXCEPT !.size = new_size, !.usable = usable,
                                     !.bytes = [i \in 1..usable |->
                                        IF i <= Len(b.bytes) THEN b.bytes[i]
                                        ELSE o.garbage[i]]]]
                   ELSE cx.heap,
         calls |-> Append(cx.calls,
                     [f |-> "grow_in_place", ptr |-> ptr, layout |-> layout,
                      new_size |-> new_size, res |-> res]),
         res   |-> res]

impl_shrink_in_place(cx, a, ptr, layout, new_size, o) ==
    LET b      == cx.heap[ptr]
        can    == o.inplace
        usable == Min(b.usable, new_size + o.excess)
        res    == IF can THEN OkSize(usable) ELSE CannotReallocInPlace
    IN  [heap  |-> IF can
                   THEN [cx.heap EXCEPT ![ptr] =
                           [b EXCEPT !.size = new_size, !.usable = usable,
                                     !.bytes = SubSeq(b.bytes, 1, usable)]]
                   ELSE cx.heap,
         calls |-> Append(cx.calls,
                     [f |-> "shrink_in_place", ptr |-> ptr, layout |-> layout,
                      new_size |-> new_size, res |-> res]),
         res   |-> res]

\* self.grow_in_place(..) and self.shrink_in_place(..): dynamic dispatch.
self_grow_in_place(cx, a, ptr, layout, new_size, o) ==
    IF Overrides(a) THEN impl_grow_in_place(cx, a, ptr, layout, new_size, o)
    ELSE grow_in_place(cx, a, ptr, layout, new_size, o)

self_shrink_in_place(cx, a, ptr, layout, new_size, o) ==
    IF Overrides(a) THEN impl_shrink_in_place(cx, a, ptr, layout, new_size, o)
    ELSE shrink_in_place(cx, a, ptr, layout, new_size, o)

(***************************************************************************)
(* The default methods of AllocRef built on the ones above.                *)
(***************************************************************************)
alloc_zeroed(cx, a, layout, o) ==
    LET size   == layout.size
        result == alloc(cx, a, layout, o)
    IN  IF result.res.ok
        THEN write_bytes(result, result.res.ptr, 0, size)
        ELSE result

\* Mutant of grow_in_place_zeroed: the new bytes are left as they are.
grow_in_place_zeroed_not_zeroing(cx, a, ptr, layout, new_size, o) ==
    self_grow_in_place(cx, a, ptr, layout, new_size, o)

grow_in_place_zeroed(cx, a, ptr, layout, new_size, o) ==
    LET g == self_grow_in_place(cx, a, ptr, layout, new_size, o)
    IN  IF g.res.ok
        THEN write_bytes(g, ptr, layout.size, new_size - layout.size)
        ELSE g

\* Mutants of realloc's fallback: it deallocates the old block although
\* alloc failed; it does not copy; it deallocates before it copies.
realloc_fallback_frees_on_err(cx, a, ptr, layout, new_size, o) ==
    LET new_layout == Layout(new_size, layout.align)
        result     == alloc(cx, a, new_layout, o)
    IN  IF result.res.ok
        THEN dealloc(copy_nonoverlapping(result, ptr, result.res.ptr,
                                         Min(layout.size, new_size)),
                     a, ptr, layout)
        ELSE dealloc(result, a, ptr, layout)

realloc_fallback_no_copy(cx, a, ptr, layout, new_size, o) ==
    LET new_layout == Layout(new_size, layout.align)
        result     == alloc(cx, a, new_layout, o)
    IN  IF result.res.ok THEN dealloc(result, a, ptr, layout) ELSE result

realloc_fallback_dealloc_first(cx, a, ptr, layout, new_size, o) ==
    LET new_layout == Layout(new_size, layout.align)
        result     == alloc(cx, a, new_layout, o)
    IN  IF result.res.ok
        THEN copy_nonoverlapping(dealloc(result, a, ptr, layout), ptr,
                                 result.res.ptr, Min(layout.size, new_size))
        ELSE result

\* Mutant of realloc's fallback: it never deallocates the old block.
realloc_fallback_no_dealloc(cx, a, ptr, layout, new_size, o) ==
    LET new_layout == Layout(new_size, layout.align)
        result     == alloc(cx, a, new_layout, o)
    IN  IF result.res.ok
        THEN copy_nonoverlapping(result, ptr, result.res.ptr,
                                 Min(layout.size, new_size))
        ELSE result

\* Mutant of realloc's fallback: when alloc fails it releases the old block
\* before it returns the error.
realloc_fallback_gives_up_block(cx, a, ptr, layout, new_size, o) ==
    LET new_layout == Layout(new_size, layout.align)
        result     == alloc(cx, a, new_layout, o)
    IN  IF result.res.ok
        THEN dealloc(copy_nonoverlapping(result, ptr, result.res.ptr,
                                         Min(layout.size, new_size)),
                     a, ptr, layout)
        ELSE [dealloc(result, a, ptr, layout) EXCEPT !.res = AllocErr]

\* realloc, from "otherwise, fall back on alloc + copy + dealloc" on.
realloc_fallback(cx, a, ptr, layout, new_size, o) ==
    LET old_size   == layout.size
        new_layout == Layout(new_size, layout.align)
        result     == alloc(cx, a, new_layout, o)
    IN  IF result.res.ok
        THEN dealloc(copy_nonoverlapping(result, ptr, result.res.ptr,
                                         Min(old_size, new_size)),
                     a, ptr, layout)
        ELSE result

\* Mutant of realloc: it allocates without trying the in-place methods.
realloc_alloc_first(cx, a, ptr, layout, new_size, o) ==
    IF new_size = layout.size THEN [cx EXCEPT !.res = Ok(ptr, new_size)]
    ELSE realloc_fallback(cx, a, ptr, layout, new_size, o)

\* Mutant of realloc: no case for an unchanged size, which goes the way of
\* a shrink.
realloc_no_equal_case(cx, a, ptr, layout, new_size, o) ==
    LET old_size == layout.size
        g == self_grow_in_place(cx, a, ptr, layout, new_size, o)
        s == self_shrink_in_place(cx, a, ptr, layout, new_size, o)
    IN  IF new_size > old_size
        THEN IF g.res.ok THEN [g EXCEPT !.res = Ok(ptr, g.res.size)]
             ELSE realloc_fallback(g, a, ptr, layout, new_size, o)
        ELSE IF s.res.ok THEN [s EXCEPT !.res = Ok(ptr, s.res.size)]
             ELSE realloc_fallback(s, a, ptr, layout, new_size, o)

realloc(cx, a, ptr, layout, new_size, o) ==
    LET old_size == layout.size
        g == self_grow_in_place(cx, a, ptr, layout, new_size, o)
        s == self_shrink_in_place(cx, a, ptr, layout, new_size, o)
    IN  IF new_size > old_size
        THEN IF g.res.ok THEN [g EXCEPT !.res = Ok(ptr, g.res.size)]
             ELSE realloc_fallback(g, a, ptr, layout, new_size, o)
        ELSE IF new_size < old_size
        THEN IF s.res.ok THEN [s EXCEPT !.res = Ok(ptr, s.res.size)]
             ELSE realloc_fallback(s, a, ptr, layout, new_size, o)
        ELSE [cx EXCEPT !.res = Ok(ptr, new_size)]

\* realloc_zeroed, from "otherwise, fall back on alloc + copy + dealloc" on.
realloc_zeroed_fallback(cx, a, ptr, layout, new_size, o) ==
    LET old_size   == layout.size
        new_layout == Layout(new_size, layout.align)
        result     == alloc_zeroed(cx, a, new_layout, o)
    IN  IF result.res.ok
        THEN dealloc(copy_nonoverlapping(result, ptr, result.res.ptr,
                                         Min(old_size, new_size)),
                     a, ptr, layout)
        ELSE result

\* Mutant of realloc_zeroed: a failed in-place call is returned to the
\* caller (as the ? operator would) instead of falling back.
realloc_zeroed_propagates(cx, a, ptr, layout, new_size, o) ==
    LET old_size == layout.size
        g == grow_in_place_zeroed(cx, a, ptr, layout, new_size, o)
        s == self_shrink_in_place(cx, a, ptr, layout, new_size, o)
    IN  IF new_size > old_size
        THEN IF g.res.ok THEN [g EXCEPT !.res = Ok(ptr, g.res.size)] ELSE g
        ELSE IF new_size < old_size
        THEN IF s.res.ok THEN [s EXCEPT !.res = Ok(ptr, s.res.size)] ELSE s
        ELSE [cx EXCEPT !.res = Ok(ptr, new_size)]

realloc_zeroed(cx, a, ptr, layout, new_size, o) ==
    LET old_size == layout.size
        g == grow_in_place_zeroed(cx, a, ptr, layout, new_size, o)
        s == self_shrink_in_place(cx, a, ptr, layout, new_size, o)
    IN  IF new_size > old_size
        THEN IF g.res.ok THEN [g EXCEPT !.res = Ok(ptr, g.res.size)]
             ELSE realloc_zeroed_fallback(g, a, ptr, layout, new_size, o)
        ELSE IF new_size < old_size
        THEN IF s.res.ok THEN [s EXCEPT !.res = Ok(ptr, s.res.size)]
             ELSE realloc_zeroed_fallback(s, a, ptr, layout, new_size, o)
        ELSE [cx EXCEPT !.res = Ok(ptr, new_size)]

(***************************************************************************)
(* SpecAlloc: a client that calls the methods of AllocRef, keeping to      *)
(* their safety preconditions (the pointer is currently allocated via the  *)
(* allocator it is passed to, and the layout fits it).  The client holds   *)
(* one block at a time: it allocates when it holds none.                   *)
(***************************************************************************)
NoOp == [op |-> "init", a |-> 0, ptr |-> NULL, layout |-> Layout(0, 1),
         new_size |-> 0, old |-> Unused, live |-> {}, calls |-> <<>>,
         res |-> NoRes]

LiveSet(h) == {p \in Ptrs : h[p].st = "live"}

\* old: the block at ptr before the operation; live: the blocks allocated
\* before it.
Record(op, a, ptr, layout, new_size, cx) ==
    [op |-> op, a |-> a, ptr |-> ptr, layout |-> layout,
     new_size |-> new_size,
     old |-> IF ptr \in Ptrs THEN heap[ptr] ELSE Unused,
     live |-> LiveSet(heap), calls |-> cx.calls, res |-> cx.res]

Layouts == {Layout(s, al) : s \in 0..(MaxSize + 1), al \in Aligns}

FittingLayouts(p) ==
    {Layout(s, heap[p].align) : s \in heap[p].size..heap[p].usable}

\* No raw buffer, no box.
ZST   == [size |-> 0, align |-> 1]
NoBuf == [st |-> "none", ptr |-> NULL, cap |-> 0, a |-> 0, T |-> ZST]
NoBox == [st |-> "none", ptr |-> NULL, len |-> 0, a |-> 0, T |-> ZST]

InitAlloc ==
    /\ heap = [p \in Ptrs |-> Unused]
    /\ self \in Allocs
    /\ buf = NoBuf
    /\ box = NoBox
    /\ proc = "running"
    /\ HOOK = NULL
    /\ pending = NULL
    /\ last = NoOp
    /\ thr = <<>>

DoAlloc ==
    \E layout \in Layouts, o \in OraclesAlloc :
        \E cx \in {alloc(Cx(heap), self, layout, o)} :
            /\ LiveSet(heap) = {}
            /\ heap' = cx.heap
            /\ last' = Record("alloc", self, NULL, layout, 0, cx)
            /\ UNCHANGED <<self, allocFrame>>

DoAllocZeroed ==
    \E layout \in Layouts, o \in OraclesAlloc :
        \E cx \in {alloc_zeroed(Cx(heap), self, layout, o)} :
            /\ LiveSet(heap) = {}
            /\ heap' = cx.heap
            /\ last' = Record("alloc_zeroed", self, NULL, layout, 0, cx)
            /\ UNCHANGED <<self, allocFrame>>

DoDealloc ==
    \E p \in Ptrs :
        /\ IsLive(heap, p)
        /\ \E layout \in FittingLayouts(p) :
            \E cx \in {dealloc(Cx(heap), heap[p].by, p, layout)} :
                /\ heap' = cx.heap
                /\ last' = Record("dealloc", heap[p].by, p, layout, 0, cx)
                /\ UNCHANGED <<self, allocFrame>>

DoRealloc ==
    \E p \in Ptrs, new_size \in 0..(MaxSize + 1), o \in OraclesRealloc(self) :
        /\ IsLive(heap, p)
        /\ \E layout \in FittingLayouts(p) :
            \E cx \in {realloc(Cx(heap), heap[p].by, p, layout, new_size, o)} :
                /\ heap' = cx.heap
                /\ last' = Record("realloc", heap[p].by, p, layout, new_size, cx)
                /\ UNCHANGED <<self, allocFrame>>

DoReallocZeroed ==
    \E p \in Ptrs, new_size \in 0..(MaxSize + 1), o \in OraclesRealloc(self) :
        /\ IsLive(heap, p)
        /\ \E layout \in FittingLayouts(p) :
            \E cx \in {realloc_zeroed(Cx(heap), heap[p].by, p, layout, new_size, o)} :
                /\ heap' = cx.heap
                /\ last' = Record("realloc_zeroed", heap[p].by, p, layout,
                                  new_size, cx)
                /\ UNCHANGED <<self, allocFrame>>

DoGrowInPlace ==
    \E p \in Ptrs, new_size \in 0..(MaxSize + 1), o \in OraclesInPlace(self) :
        /\ IsLive(heap, p)
        /\ \E layout \in FittingLayouts(p) :
            /\ new_size >= layout.size
            /\ LET cx == self_grow_in_place(Cx(heap), heap[p].by, p, layout,
                                            new_size, o)
               IN  /\ heap' = cx.heap
                   /\ last' = Record("grow_in_place", heap[p].by, p, layout,
                                     new_size, cx)
                   /\ UNCHANGED <<self, allocFrame>>

DoGrowInPlaceZeroed ==
    \E p \in Ptrs, new_size \in 0..(MaxSize + 1), o \in OraclesInPlace(self) :
        /\ IsLive(heap, p)
        /\ \E layout \in FittingLayouts(p) :
            /\ new_size >= layout.size
            /\ LET cx == grow_in_place_zeroed(Cx(heap), heap[p].by, p, layout,
                                              new_size, o)
               IN  /\ heap' = cx.heap
                   /\ last' = Record("grow_in_place_zeroed", heap[p].by, p,
                                     layout, new_size, cx)
                   /\ UNCHANGED <<self, allocFrame>>

DoShrinkInPlace ==
    \E p \in Ptrs, new_size \in 0..(MaxSize + 1), o \in OraclesInPlace(self) :
        /\ IsLive(heap, p)
        /\ \E layout \in FittingLayouts(p) :
            /\ new_size <= layout.size
            /\ LET cx == self_shrink_in_place(Cx(heap), heap[p].by, p, layout,
                                              new_size, o)
               IN  /\ heap' = cx.heap
                   /\ last' = Record("shrink_in_place", heap[p].by, p, layout,
                                     new_size, cx)
                   /\ UNCHANGED <<self, allocFrame>>

NextAlloc ==
    \/ DoAlloc
    \/ DoAllocZeroed
    \/ DoDealloc
    \/ DoRealloc
    \/ DoReallocZeroed
    \/ DoGrowInPlace
    \/ DoGrowInPlaceZeroed
    \/ DoShrinkInPlace

SpecAlloc == InitAlloc /\ [][NextAlloc]_vars

(***************************************************************************)
(* The Global allocator: every method forwards the layout to the system    *)
(* allocator (std::alloc) and maps a null result to AllocErr.  The system  *)
(* allocator returns null when it cannot serve a request; what it returns  *)
(* for a request of zero bytes is not defined: null, or the address of a   *)
(* block of no bytes (the oracle's zeronull).                              *)
(***************************************************************************)
Global == 3     \* the instance id of the unit struct Global

SysOracles == [ok : BOOLEAN, garbage : Garbage, inplace : BOOLEAN,
               zeronull : BOOLEAN]

\* Result<NonNull<u8>, AllocErr>: no size is returned.
OkPtr(p) == [ok |-> TRUE, ptr |-> p]

\* NonNull::new(raw).ok_or(AllocErr)
NonNull_new_ok_or(raw) == IF raw = NULL THEN AllocErr ELSE OkPtr(raw)

Raw(p) == [ok |-> p # NULL, ptr |-> p]

\* Memory is there for the request: the outcome is not one of exhaustion.
Available(h, size, o) ==
    o.ok /\ size <= MaxBytes /\ \E p \in Ptrs : h[p].st = "unused"

sys_alloc(cx, layout, o, zero) ==
    LET free   == {p \in Ptrs : cx.heap[p].st = "unused"}
        served == /\ Available(cx.heap, layout.size, o)
                  /\ ~(layout.size = 0 /\ o.zeronull)
        p      == CHOOSE q \in free : \A r \in free : q <= r
        blk    == [st |-> "live", by |-> Global, size |-> layout.size,
                   usable |-> layout.size, align |-> layout.align,
                   bytes |-> [i \in 1..layout.size |->
                                 IF zero THEN 0 ELSE o.garbage[i]]]
        raw    == IF served THEN p ELSE NULL
    IN  [heap  |-> IF served THEN [cx.heap EXCEPT ![p] = blk] ELSE cx.heap,
         calls |-> Append(cx.calls,
                     [f |-> IF zero THEN "sys_alloc_zeroed" ELSE "sys_alloc",
                      layout |-> layout, raw |-> raw]),
         res   |-> Raw(raw)]

sys_dealloc(cx, ptr, layout) ==
    [heap  |-> IF ptr \in Ptrs THEN [cx.heap EXCEPT ![ptr] = Freed]
               ELSE cx.heap,
     calls |-> Append(cx.calls,
                 [f |-> "sys_dealloc", ptr |-> ptr, layout |-> layout,
                  live |-> IsLive(cx.heap, ptr)]),
     res   |-> cx.res]

\* The system realloc resizes in place or moves the bytes to a new block and
\* frees the old one; when it fails it returns null and leaves the old block.
\* For new_size = 0 (not defined) it may also free the block and return null.
sys_realloc(cx, ptr, layout, new_size, o) ==
    LET b      == cx.heap[ptr]
        free   == {p \in Ptrs : cx.heap[p].st = "unused"}
        p      == CHOOSE q \in free : \A r \in free : q <= r
        grown(bytes) == [i \in 1..new_size |->
                            IF i <= Len(bytes) THEN bytes[i] ELSE o.garbage[i]]
        nb     == [b EXCEPT !.size = new_size, !.usable = new_size,
                            !.bytes = grown(b.bytes)]
        zero   == new_size = 0 /\ o.zeronull
        place  == ~zero /\ o.ok /\ o.inplace /\ new_size <= MaxBytes
        move   == ~zero /\ ~place /\ Available(cx.heap, new_size, o)
        raw    == IF place THEN ptr ELSE IF move THEN p ELSE NULL
    IN  [heap  |-> IF place THEN [cx.heap EXCEPT ![ptr] = nb]
                   ELSE IF move THEN [cx.heap EXCEPT ![p] = nb, ![ptr] = Freed]
                   ELSE IF zero THEN [cx.heap EXCEPT ![ptr] = Freed]
                   ELSE cx.heap,
         calls |-> Append(cx.calls,
                     [f |-> "sys_realloc", ptr |-> ptr, layout |-> layout,
                      new_size |-> new_size, raw |-> raw]),
         res   |-> Raw(raw)]

Global_alloc(cx, layout, o) ==
    LET r == sys_alloc(cx, layout, o, FALSE)
    IN  [r EXCEPT !.res = NonNull_new_ok_or(r.res.ptr)]

Global_dealloc(cx, ptr, layout) == sys_dealloc(cx, ptr, layout)

Global_realloc(cx, ptr, layout, new_size, o) ==
    LET r == sys_realloc(cx, ptr, layout, new_size, o)
    IN  [r EXCEPT !.res = NonNull_new_ok_or(r.res.ptr)]

Global_alloc_zeroed(cx, layout, o) ==
    LET r == sys_alloc(cx, layout, o, TRUE)
    IN  [r EXCEPT !.res = NonNull_new_ok_or(r.res.ptr)]

(***************************************************************************)
(* SpecGlobal: a client of Global that holds one block at a time.          *)
(***************************************************************************)
\* avail: memory was there for the request when the call was made.
RecordGlobal(op, ptr, layout, new_size, cx, avail) ==
    [op |-> op, a |-> Global, ptr |-> ptr, layout |-> layout,
     new_size |-> new_size,
     old |-> IF ptr \in Ptrs THEN heap[ptr] ELSE Unused,
     live |-> LiveSet(heap), calls |-> cx.calls, res |-> cx.res,
     avail |-> avail]

InitGlobal ==
    /\ heap = [p \in Ptrs |-> Unused]
    /\ self = Global
    /\ buf = NoBuf
    /\ box = NoBox
    /\ proc = "running"
    /\ HOOK = NULL
    /\ pending = NULL
    /\ last = NoOp
    /\ thr = <<>>

DoGlobalAlloc ==
    \E layout \in Layouts, o \in SysOracles :
        \E cx \in {Global_alloc(Cx(heap), layout, o)} :
            /\ LiveSet(heap) = {}
            /\ ~o.inplace
            /\ heap' = cx.heap
            /\ last' = RecordGlobal("Global.alloc", NULL, layout, 0, cx,
                                    Available(heap, layout.size, o))
            /\ UNCHANGED <<self, allocFrame>>

DoGlobalAllocZeroed ==
    \E layout \in Layouts, o \in SysOracles :
        \E cx \in {Global_alloc_zeroed(Cx(heap), layout, o)} :
            /\ LiveSet(heap) = {}
            /\ ~o.inplace
            /\ heap' = cx.heap
            /\ last' = RecordGlobal("Global.alloc_zeroed", NULL, layout, 0, cx,
                                    Available(heap, layout.size, o))
            /\ UNCHANGED <<self, allocFrame>>

DoGlobalDealloc ==
    \E p \in Ptrs :
        /\ IsLive(heap, p)
        /\ LET layout == Layout(heap[p].size, heap[p].align)
               cx     == Global_dealloc(Cx(heap), p, layout)
           IN  /\ heap' = cx.heap
               /\ last' = RecordGlobal("Global.dealloc", p, layout, 0, cx, TRUE)
               /\ UNCHANGED <<self, allocFrame>>

DoGlobalRealloc ==
    \E p \in Ptrs, new_size \in 0..(MaxSize + 1), o \in SysOracles :
        /\ IsLive(heap, p)
        /\ LET layout == Layout(heap[p].size, heap[p].align)
               cx     == Global_realloc(Cx(heap), p, layout, new_size, o)
           IN  /\ heap' = cx.heap
               /\ last' = RecordGlobal("Global.realloc", p, layout, new_size,
                                       cx, Available(heap, new_size, o))
               /\ UNCHANGED <<self, allocFrame>>

NextGlobal ==
    \/ DoGlobalAlloc
    \/ DoGlobalAllocZeroed
    \/ DoGlobalDealloc
    \/ DoGlobalRealloc

SpecGlobal == InitGlobal /\ [][NextGlobal]_vars

(***************************************************************************)
(* Layout arithmetic on usize (LayoutExt) and the errors of collections.   *)
(***************************************************************************)
UsizeMax == 2 ^ WordBits - 1

wrapping_add(x, y) == (x + y) % (UsizeMax + 1)
wrapping_sub(x, y) == (x + (UsizeMax + 1) - y) % (UsizeMax + 1)

Some(v) == [ok |-> TRUE, val |-> v]
None    == [ok |-> FALSE]

checked_add(x, y) == IF x + y <= UsizeMax THEN Some(x + y) ELSE None
checked_mul(x, y) == IF x * y <= UsizeMax THEN Some(x * y) ELSE None

\* x & !align.wrapping_sub(1), for align a power of two.
and_not_mask(x, align) == x - (x % align)

\* Mutant of padding_needed_for: the distance to the next multiple of align
\* above len, which is a whole align when len is a multiple already.
padding_needed_for_next_multiple(layout, align) ==
    align - (layout.size % align)

padding_needed_for(layout, align) ==
    LET len            == layout.size
        len_rounded_up == and_not_mask(
                              wrapping_sub(wrapping_add(len, align), 1), align)
    IN  wrapping_sub(len_rounded_up, len)

LayoutErr == [ok |-> FALSE, err |-> "LayoutErr"]

\* usize::is_power_of_two
is_power_of_two(x) == \E k \in 0..(WordBits - 1) : x = 2 ^ k

\* Mutant of from_size_align: a size that does not fit is cut down to the
\* largest that does.
from_size_align_clamping(size, align) ==
    IF ~is_power_of_two(align) THEN LayoutErr
    ELSE [ok |-> TRUE,
          layout |-> Layout(Min(size, UsizeMax - (align - 1)), align)]

\* Layout::from_size_align(size, align)
from_size_align(size, align) ==
    IF ~is_power_of_two(align) THEN LayoutErr
    ELSE IF size > UsizeMax - (align - 1) THEN LayoutErr
    ELSE [ok |-> TRUE, layout |-> Layout(size, align)]

\* layouterr(): the error of a construction that is known to fail.
layouterr == from_size_align(0, 0)

\* Mutant of repeat: the multiplication wraps instead of being checked.
repeat_wrapping(layout, n) ==
    LET padded_size == layout.size + padding_needed_for(layout, layout.align)
    IN  [ok |-> TRUE,
         layout |-> Layout((padded_size * n) % (UsizeMax + 1), layout.align),
         offs |-> padded_size]

repeat(layout, n) ==
    LET padded_size == layout.size + padding_needed_for(layout, layout.align)
        alloc_size  == checked_mul(padded_size, n)
    IN  IF alloc_size.ok
        THEN [ok |-> TRUE, layout |-> Layout(alloc_size.val, layout.align),
              offs |-> padded_size]
        ELSE LayoutErr

\* Layout::array::<T>(n); an element type T is its (size, align).
array(T, n) == repeat(Layout(T.size, T.align), n)

\* CollectionAllocErr and its From conversions.
CapacityOverflow == [ok |-> FALSE, err |-> "CapacityOverflow"]
CollectionAllocErr_AllocErr ==
    [ok |-> FALSE, err |-> "CollectionAllocErr::AllocErr"]
From_AllocErr(e)  == CollectionAllocErr_AllocErr
From_LayoutErr(e) == CapacityOverflow

OkUnit == [ok |-> TRUE]

(***************************************************************************)
(* The OOM hook.  A hook is a function pointer fn(Layout) -> !: the        *)
(* built-in default_oom_hook or one a client registers.                    *)
(***************************************************************************)
default_oom_hook == 1
Hooks == {2, 3}

\* set_oom_hook(hook): the value HOOK.store leaves in the slot.
set_oom_hook(slot, hook) == hook

\* Mutant of take_oom_hook: it loads the slot and leaves it as it is.
take_oom_hook_keeps(slot) ==
    [slot |-> slot,
     ret  |-> IF slot = NULL THEN default_oom_hook ELSE slot]

\* take_oom_hook(): HOOK.swap(null), and what it returns.
take_oom_hook(slot) ==
    [slot |-> NULL,
     ret  |-> IF slot = NULL THEN default_oom_hook ELSE slot]

\* Mutant of rust_oom: it does not call the hook and returns to its caller
\* as if the allocation had succeeded with a null pointer.
rust_oom_returns(cx, layout) ==
    [cx EXCEPT !.calls = Append(@, [f |-> "handle_alloc_error",
                                    layout |-> layout,
                                    hook |-> default_oom_hook]),
               !.res = [ok |-> TRUE, ptr |-> NULL, size |-> 0]]

\* rust_oom(layout), the target of handle_alloc_error: it calls the hook
\* in the slot, or the default one, and the hook does not return.
rust_oom(cx, layout) ==
    LET hook == IF HOOK = NULL THEN default_oom_hook ELSE HOOK
    IN  [cx EXCEPT !.calls = Append(@, [f |-> "handle_alloc_error",
                                        layout |-> layout, hook |-> hook]),
                   !.res = [ok |-> FALSE, err |-> "oom", hook |-> hook]]

(***************************************************************************)
(* The raw growable buffer RawVec<T, A>: a pointer, a capacity (in         *)
(* elements) and an allocator.  Its operations take the heap and calls of  *)
(* an execution context and return them with the buffer as it is after.    *)
(***************************************************************************)
ElemTypes == {ZST, [size |-> 1, align |-> 1], [size |-> 2, align |-> 2]}

Rv(cx, b, res) ==
    [heap |-> cx.heap, calls |-> cx.calls, res |-> res, buf |-> b]

\* An empty buffer: no allocation, the sentinel pointer; a buffer of a
\* zero-sized type reports the largest capacity.
RawVec_new_in(T, a) ==
    [st |-> "live", ptr |-> dangling(T.align),
     cap |-> IF T.size = 0 THEN UsizeMax ELSE 0, a |-> a, T |-> T]

current_layout(b) == Layout(b.T.size * b.cap, b.T.align)

\* The layout of the request that failed: that of the last alloc call.
failing_layout(calls) ==
    LET I == {i \in 1..Len(calls) : calls[i].f = "alloc"}
    IN  calls[CHOOSE i \in I : \A j \in I : j <= i].layout

\* What an infallible entry point makes of the result of the fallible
\* computation: an error ends in handle_alloc_error or a capacity-overflow
\* failure, neither of which returns.
infallible(rv) ==
    IF rv.res.ok THEN rv
    ELSE IF rv.res = CapacityOverflow
    THEN [rv EXCEPT !.calls = Append(@, [f |-> "capacity_overflow"]),
                    !.res = [ok |-> FALSE, err |-> "capacity overflow"]]
    ELSE rust_oom(rv, failing_layout(rv.calls))

Fatal(res) == ~res.ok /\ res.err \in {"oom", "capacity overflow"}

RawVec_try_with_capacity_in(cx, T, n, a, o) ==
    LET lay == array(T, n)
        r   == alloc(cx, a, lay.layout, o)
    IN  IF T.size = 0 THEN Rv(cx, RawVec_new_in(T, a), OkUnit)
        ELSE IF ~lay.ok THEN Rv(cx, NoBuf, From_LayoutErr(lay))
        ELSE IF lay.layout.size = 0 THEN Rv(cx, RawVec_new_in(T, a), OkUnit)
        ELSE IF r.res.ok
        THEN Rv(r, [st |-> "live", ptr |-> r.res.ptr, cap |-> n, a |-> a,
                    T |-> T], OkUnit)
        ELSE Rv(r, NoBuf, From_AllocErr(r.res))

RawVec_with_capacity_in(cx, T, n, a, o) ==
    infallible(RawVec_try_with_capacity_in(cx, T, n, a, o))

\* Give the buffer room for new_cap > b.cap elements: the first block comes
\* from alloc, a later one from realloc of the current block.
RawVec_grow_to(cx, b, new_cap, o) ==
    LET lay == array(b.T, new_cap)
        r   == IF b.cap = 0 THEN alloc(cx, b.a, lay.layout, o)
               ELSE realloc(cx, b.a, b.ptr, current_layout(b),
                            lay.layout.size, o)
    IN  IF ~lay.ok THEN Rv(cx, b, From_LayoutErr(lay))
        ELSE IF r.res.ok
        THEN Rv(r, [b EXCEPT !.ptr = r.res.ptr, !.cap = new_cap], OkUnit)
        ELSE Rv(r, b, From_AllocErr(r.res))

\* Mutant of amortized_new_cap: grows to what is required and no further.
amortized_new_cap_exact(b, required_cap) == required_cap

\* The capacity the amortised reserve grows to: twice the current one, and
\* not less than what is required.  Whether the byte size of that capacity
\* fits a usize is checked by the layout computation of RawVec_grow_to.
amortized_new_cap(b, required_cap) == Max(required_cap, b.cap * 2)

\* Mutant of the reserve family: no check that the capacity suffices.
RawVec_try_reserve_always_grows(cx, b, used_cap, needed_extra_cap, exact, o) ==
    LET required == checked_add(used_cap, needed_extra_cap)
        new_cap  == IF exact THEN required.val
                    ELSE amortized_new_cap(b, required.val)
    IN  IF ~required.ok \/ b.T.size = 0 THEN Rv(cx, b, CapacityOverflow)
        ELSE RawVec_grow_to(cx, b, new_cap, o)

RawVec_try_reserve_internal(cx, b, used_cap, needed_extra_cap, exact, o) ==
    LET required == checked_add(used_cap, needed_extra_cap)
        new_cap  == IF exact THEN required.val
                    ELSE amortized_new_cap(b, required.val)
    IN  IF ~required.ok THEN Rv(cx, b, CapacityOverflow)
        ELSE IF b.cap >= required.val THEN Rv(cx, b, OkUnit)
        ELSE RawVec_grow_to(cx, b, new_cap, o)

RawVec_try_reserve(cx, b, used_cap, needed_extra_cap, o) ==
    RawVec_try_reserve_internal(cx, b, used_cap, needed_extra_cap, FALSE, o)

\* Mutant of try_reserve_exact: grows as try_reserve does.
RawVec_try_reserve_exact_amortized(cx, b, used_cap, needed_extra_cap, o) ==
    RawVec_try_reserve_internal(cx, b, used_cap, needed_extra_cap, FALSE, o)

RawVec_try_reserve_exact(cx, b, used_cap, needed_extra_cap, o) ==
    RawVec_try_reserve_internal(cx, b, used_cap, needed_extra_cap, TRUE, o)

RawVec_reserve(cx, b, used_cap, needed_extra_cap, o) ==
    infallible(RawVec_try_reserve(cx, b, used_cap, needed_extra_cap, o))

RawVec_reserve_exact(cx, b, used_cap, needed_extra_cap, o) ==
    infallible(RawVec_try_reserve_exact(cx, b, used_cap, needed_extra_cap, o))

\* Mutant of double: a capacity that cannot be doubled is left as it is.
RawVec_double_saturating(cx, b, o) ==
    LET dbl == checked_mul(b.cap, 2)
    IN  IF ~dbl.ok THEN Rv(cx, b, OkUnit)
        ELSE infallible(RawVec_grow_to(cx, b, Max(1, dbl.val), o))

RawVec_double(cx, b, o) ==
    LET dbl == checked_mul(b.cap, 2)
    IN  IF ~dbl.ok THEN infallible(Rv(cx, b, CapacityOverflow))
        ELSE infallible(RawVec_grow_to(cx, b, Max(1, dbl.val), o))

\* Shrink the block to used elements; with none left the block is given
\* back and the buffer is empty again.
RawVec_shrink_to_fit(cx, b, used, o) ==
    LET new_size == b.T.size * used
        r        == realloc(cx, b.a, b.ptr, current_layout(b), new_size, o)
    IN  IF b.T.size = 0 \/ used >= b.cap THEN Rv(cx, b, OkUnit)
        ELSE IF used = 0
        THEN Rv(dealloc(cx, b.a, b.ptr, current_layout(b)),
                RawVec_new_in(b.T, b.a), OkUnit)
        ELSE IF r.res.ok
        THEN Rv(r, [b EXCEPT !.ptr = r.res.ptr, !.cap = used], OkUnit)
        ELSE infallible(Rv(r, b, From_AllocErr(r.res)))

\* Mutant of into_box: the source buffer gives its block back as it goes.
RawVec_into_box_drops_source(cx, b, used, o) ==
    LET s == RawVec_shrink_to_fit(cx, b, used, o)
        d == IF s.buf.T.size # 0 /\ s.buf.cap # 0
             THEN dealloc(s, s.buf.a, s.buf.ptr, current_layout(s.buf))
             ELSE s
    IN  IF s.res.ok
        THEN [s EXCEPT !.heap = d.heap, !.calls = d.calls,
                       !.buf = [st |-> "live", ptr |-> s.buf.ptr,
                                len |-> used, a |-> b.a, T |-> b.T]]
        ELSE s

\* into_box(used): the buffer shrunk to used elements, then moved into the
\* box.  The result carries the box in place of the buffer.
RawVec_into_box(cx, b, used, o) ==
    LET s == RawVec_shrink_to_fit(cx, b, used, o)
    IN  IF s.res.ok
        THEN [s EXCEPT !.buf = [st |-> "live", ptr |-> s.buf.ptr,
                                len |-> used, a |-> b.a, T |-> b.T]]
        ELSE s

\* Mutant of Drop for RawVec: no check of the element size.
RawVec_drop_unchecked(cx, b) ==
    IF b.cap # 0
    THEN dealloc(cx, b.a, b.ptr, current_layout(b))
    ELSE cx

\* Drop for RawVec: dealloc_buffer.
RawVec_drop(cx, b) ==
    IF b.T.size # 0 /\ b.cap # 0
    THEN dealloc(cx, b.a, b.ptr, current_layout(b))
    ELSE cx

\* Mutant of Drop for Box: no check of the size of the layout.
Box_drop_unchecked(cx, bx) ==
    dealloc(cx, bx.a, bx.ptr, Layout(bx.T.size * bx.len, bx.T.align))

\* Box::into_raw(b): the pointer of the box; the box is forgotten, not
\* dropped.
Box_into_raw(bx) == bx.ptr

\* Box::from_raw_in(raw, a), for a pointer to len values of type T.
Box_from_raw_in(raw, a, T, len) ==
    [st |-> "live", ptr |-> raw, len |-> len, a |-> a, T |-> T]

\* Drop for Box<[T], A>: Layout::for_value of a slice of len elements.
Box_drop(cx, bx) ==
    LET layout == Layout(bx.T.size * bx.len, bx.T.align)
    IN  IF layout.size # 0 THEN dealloc(cx, bx.a, bx.ptr, layout) ELSE cx

\* ptr::write(ptr, x): the bytes of x go to the block at ptr; for a
\* zero-sized x nothing is written.
ptr_write(cx, ptr, x) ==
    [heap  |-> IF ptr \in Ptrs
               THEN [cx.heap EXCEPT ![ptr].bytes =
                       [i \in 1..Len(@) |-> IF i <= Len(x) THEN x[i] ELSE @[i]]]
               ELSE cx.heap,
     calls |-> Append(cx.calls, [f |-> "write", ptr |-> ptr, x |-> x]),
     res   |-> cx.res]

\* The values of type T, as bytes.
Values(T) == {[i \in 1..T.size |-> 0], [i \in 1..T.size |-> 1]}

\* Box::new_in(x, a).  unwrap_or_else continues with the pointer alloc
\* returned, or with whatever handle_alloc_error returned, had it returned.
Box_new_in(cx, T, x, a, o) ==
    LET layout == Layout(T.size, T.align)
        size   == layout.size
        r      == alloc(cx, a, layout, o)
        c      == IF size = 0
                  THEN [cx EXCEPT !.res = Ok(dangling(T.align), 0)]
                  ELSE IF r.res.ok THEN r ELSE rust_oom(r, layout)
    IN  IF c.res.ok
        THEN Rv(ptr_write(c, c.res.ptr, x),
                [st |-> "live", ptr |-> c.res.ptr, len |-> 1, a |-> a,
                 T |-> T],
                OkUnit)
        ELSE Rv(c, NoBox, c.res)

(***************************************************************************)
(* SpecRawVec: the owner of one raw buffer over allocator self.  It passes *)
(* a used count within the capacity.  A failure that does not return       *)
(* either unwinds, leaving the owner running with the buffer as the        *)
(* operation left it, or ends the process.                                 *)
(***************************************************************************)
RecordRawVec(op, used, extra, rv) ==
    [op |-> op, a |-> self, ptr |-> buf.ptr, layout |-> current_layout(buf),
     new_size |-> 0, used |-> used, extra |-> extra, buf |-> buf,
     box |-> box, T |-> buf.T,
     old |-> IF buf.ptr \in Ptrs THEN heap[buf.ptr] ELSE Unused,
     live |-> LiveSet(heap), calls |-> rv.calls, res |-> rv.res]

\* The element counts the owner asks for: those an allocator can serve, and
\* the largest a usize holds.
Counts == (0..MaxBytes) \cup {UsizeMax}
Used   == {u \in Counts : u <= buf.cap}

\* The used counts passed to the reserve family: an empty or a full buffer
\* (what a partly used one requires is required of an empty one with a
\* larger additional).
UsedEnds == {u \in Used : u = 0 \/ u = buf.cap}

\* The choices that matter to the calls a buffer makes: it never asks what
\* a block can hold beyond its layout, so the blocks it gets have no excess.
OraclesRawVec == {o \in OraclesRealloc(self) : o.excess = 0}

\* An operation that makes no call has nothing for the environment to
\* decide: calls is the calls it makes when every request is refused.
Refusing == [ok |-> FALSE, excess |-> 0, garbage |-> NoGarbage,
             inplace |-> FALSE]
OraclesFor(calls) == IF calls = <<>> THEN {Refusing} ELSE OraclesRawVec

\* The process after an operation: ended when the failure did not unwind.
\* The default hook loops for ever; a registered hook, and the
\* capacity-overflow failure, end the process or unwind.
MayUnwind(res) ==
    Fatal(res) /\ (res.err = "capacity overflow"
                     \/ res.hook # default_oom_hook)

\* default_oom_hook is loop {}: the thread that entered it stays in it and
\* the process does not end.
Outcome(rv) ==
    \E unwind \in IF MayUnwind(rv.res) THEN BOOLEAN ELSE {FALSE} :
        proc' = IF ~Fatal(rv.res) \/ unwind THEN "running"
                ELSE IF rv.res.err = "oom" /\ rv.res.hook = default_oom_hook
                THEN "looping"
                ELSE "aborted"

InitRawVec ==
    /\ heap = [p \in Ptrs |-> Unused]
    /\ self \in Allocs
    /\ buf = NoBuf
    /\ box = NoBox
    /\ proc = "running"
    /\ HOOK \in {NULL, CHOOSE h \in Hooks : TRUE}
    /\ pending = HOOK
    /\ last = NoOp
    /\ thr = <<>>

DoNew ==
    \E T \in ElemTypes :
        /\ proc = "running" /\ buf.st = "none" /\ box.st = "none"
        /\ buf' = RawVec_new_in(T, self)
        /\ last' = [RecordRawVec("new", 0, 0, Rv(Cx(heap), buf', OkUnit))
                        EXCEPT !.T = T]
        /\ UNCHANGED <<heap, box, proc, rawvecFrame>>

DoWithCapacity ==
    /\ proc = "running" /\ buf.st = "none" /\ box.st = "none"
    /\ \E T \in ElemTypes, n \in Counts :
       \E o \in OraclesFor(
              RawVec_with_capacity_in(Cx(heap), T, n, self, Refusing).calls) :
        \E rv \in {RawVec_with_capacity_in(Cx(heap), T, n, self, o)} :
            /\ Outcome(rv)
            /\ heap' = rv.heap
            /\ buf' = rv.buf
            /\ last' = [RecordRawVec("with_capacity", 0, n, rv) EXCEPT !.T = T]
            /\ UNCHANGED <<box, rawvecFrame>>

DoTryWithCapacity ==
    /\ proc = "running" /\ buf.st = "none" /\ box.st = "none"
    /\ \E T \in ElemTypes, n \in Counts :
       \E o \in OraclesFor(
              RawVec_try_with_capacity_in(Cx(heap), T, n, self, Refusing).calls) :
        \E rv \in {RawVec_try_with_capacity_in(Cx(heap), T, n, self, o)} :
            /\ heap' = rv.heap
            /\ buf' = rv.buf
            /\ last' = [RecordRawVec("try_with_capacity", 0, n, rv)
                            EXCEPT !.T = T]
            /\ UNCHANGED <<box, proc, rawvecFrame>>

DoReserve ==
    /\ proc = "running" /\ buf.st = "live"
    /\ \E used \in UsedEnds, extra \in Counts :
       \E o \in OraclesFor(
              RawVec_reserve(Cx(heap), buf, used, extra, Refusing).calls) :
        \E rv \in {RawVec_reserve(Cx(heap), buf, used, extra, o)} :
            /\ Outcome(rv)
            /\ heap' = rv.heap
            /\ buf' = rv.buf
            /\ last' = RecordRawVec("reserve", used, extra, rv)
            /\ UNCHANGED <<box, rawvecFrame>>

DoReserveExact ==
    /\ proc = "running" /\ buf.st = "live"
    /\ \E used \in UsedEnds, extra \in Counts :
       \E o \in OraclesFor(
              RawVec_reserve_exact(Cx(heap), buf, used, extra, Refusing).calls) :
        \E rv \in {RawVec_reserve_exact(Cx(heap), buf, used, extra, o)} :
            /\ Outcome(rv)
            /\ heap' = rv.heap
            /\ buf' = rv.buf
            /\ last' = RecordRawVec("reserve_exact", used, extra, rv)
            /\ UNCHANGED <<box, rawvecFrame>>

DoTryReserve ==
    /\ proc = "running" /\ buf.st = "live"
    /\ \E used \in UsedEnds, extra \in Counts :
       \E o \in OraclesFor(
              RawVec_try_reserve(Cx(heap), buf, used, extra, Refusing).calls) :
        \E rv \in {RawVec_try_reserve(Cx(heap), buf, used, extra, o)} :
            /\ heap' = rv.heap
            /\ buf' = rv.buf
            /\ last' = RecordRawVec("try_reserve", used, extra, rv)
            /\ UNCHANGED <<box, proc, rawvecFrame>>

DoTryReserveExact ==
    /\ proc = "running" /\ buf.st = "live"
    /\ \E used \in UsedEnds, extra \in Counts :
       \E o \in OraclesFor(
              RawVec_try_reserve_exact(Cx(heap), buf, used, extra, Refusing).calls) :
        \E rv \in {RawVec_try_reserve_exact(Cx(heap), buf, used, extra, o)} :
            /\ heap' = rv.heap
            /\ buf' = rv.buf
            /\ last' = RecordRawVec("try_reserve_exact", used, extra, rv)
            /\ UNCHANGED <<box, proc, rawvecFrame>>

DoDouble ==
    /\ proc = "running" /\ buf.st = "live"
    /\ \E o \in OraclesFor(
              RawVec_double(Cx(heap), buf, Refusing).calls) :
        \E rv \in {RawVec_double(Cx(heap), buf, o)} :
            /\ Outcome(rv)
            /\ heap' = rv.heap
            /\ buf' = rv.buf
            /\ last' = RecordRawVec("double", 0, 0, rv)
            /\ UNCHANGED <<box, rawvecFrame>>

DoShrinkToFit ==
    /\ proc = "running" /\ buf.st = "live"
    /\ \E used \in Used :
       \E o \in OraclesFor(
              RawVec_shrink_to_fit(Cx(heap), buf, used, Refusing).calls) :
        \E rv \in {RawVec_shrink_to_fit(Cx(heap), buf, used, o)} :
            /\ Outcome(rv)
            /\ heap' = rv.heap
            /\ buf' = rv.buf
            /\ last' = RecordRawVec("shrink_to_fit", used, 0, rv)
            /\ UNCHANGED <<box, rawvecFrame>>

DoIntoBox ==
    /\ proc = "running" /\ buf.st = "live"
    /\ \E used \in Used :
       \E o \in OraclesFor(
              RawVec_into_box(Cx(heap), buf, used, Refusing).calls) :
        \E rv \in {RawVec_into_box(Cx(heap), buf, used, o)} :
            /\ Outcome(rv)
            /\ heap' = rv.heap
            /\ buf' = IF rv.res.ok THEN [buf EXCEPT !.st = "moved"] ELSE rv.buf
            /\ box' = IF rv.res.ok THEN rv.buf ELSE box
            /\ last' = RecordRawVec("into_box", used, 0, rv)
            /\ UNCHANGED rawvecFrame

DoDropRawVec ==
    /\ proc = "running" /\ buf.st = "live"
    /\ \E cx \in {RawVec_drop(Cx(heap), buf)} :
        /\ heap' = cx.heap
        /\ buf' = [buf EXCEPT !.st = "dropped"]
        /\ last' = RecordRawVec("drop", 0, 0, Rv(cx, buf', OkUnit))
        /\ UNCHANGED <<box, proc, rawvecFrame>>

DoDropBox ==
    /\ proc = "running" /\ box.st = "live"
    /\ \E cx \in {Box_drop(Cx(heap), box)} :
        /\ heap' = cx.heap
        /\ box' = [box EXCEPT !.st = "dropped"]
        /\ last' = [RecordRawVec("drop_box", 0, 0, Rv(cx, buf, OkUnit))
                        EXCEPT !.T = box.T]
        /\ UNCHANGED <<buf, proc, rawvecFrame>>

\* The owner makes a box of one value instead of a buffer.
DoBoxNewIn ==
    /\ proc = "running" /\ buf.st = "none" /\ box.st = "none"
    /\ \E T \in ElemTypes, o \in OraclesAlloc :
       \E x \in Values(T) :
        \E rv \in {Box_new_in(Cx(heap), T, x, self, o)} :
            /\ Outcome(rv)
            /\ heap' = rv.heap
            /\ box' = rv.buf
            /\ last' = [RecordRawVec("Box::new_in", 0, 0, rv) EXCEPT !.T = T]
            /\ UNCHANGED <<buf, rawvecFrame>>

NextRawVec ==
    \/ DoNew
    \/ DoBoxNewIn
    \/ DoWithCapacity
    \/ DoTryWithCapacity
    \/ DoReserve
    \/ DoReserveExact
    \/ DoTryReserve
    \/ DoTryReserveExact
    \/ DoDouble
    \/ DoShrinkToFit
    \/ DoIntoBox
    \/ DoDropRawVec
    \/ DoDropBox

SpecRawVec == InitRawVec /\ [][NextRawVec]_vars

(***************************************************************************)
(* SpecHook: a process that registers and takes OOM hooks, calls           *)
(* handle_alloc_error, and makes and destroys a box over allocator self.   *)
(* set_oom_hook and take_oom_hook are one atomic access of HOOK each.      *)
(* pending is the hook of the most recent set_oom_hook that no             *)
(* take_oom_hook has followed, NULL when there is none.                    *)
(***************************************************************************)
HookOps == {"set_oom_hook", "take_oom_hook"}

\* hook: the hook passed or returned; pending and prev: before the operation.
RecordHook(op, hook, cx) ==
    [op |-> op, hook |-> hook, pending |-> pending,
     prev |-> [op |-> last.op,
               hook |-> IF last.op \in HookOps THEN last.hook ELSE NULL],
     calls |-> cx.calls, res |-> cx.res]

InitHook ==
    /\ heap = [p \in Ptrs |-> Unused]
    /\ self \in Allocs
    /\ buf = NoBuf
    /\ box = NoBox
    /\ proc = "running"
    /\ HOOK = NULL
    /\ pending = NULL
    /\ last = NoOp
    /\ thr = <<>>

\* Any fn(Layout) -> ! can be registered, default_oom_hook included.
DoSetOomHook ==
    /\ proc = "running"
    /\ \E hook \in Hooks \cup {default_oom_hook} :
        /\ HOOK' = set_oom_hook(HOOK, hook)
        /\ pending' = hook
        /\ last' = RecordHook("set_oom_hook", hook, Cx(heap))
        /\ UNCHANGED <<hookFrame, proc>>

DoTakeOomHook ==
    /\ proc = "running"
    /\ \E r \in {take_oom_hook(HOOK)} :
        /\ HOOK' = r.slot
        /\ pending' = NULL
        /\ last' = RecordHook("take_oom_hook", r.ret, Cx(heap))
        /\ UNCHANGED <<hookFrame, proc>>

DoHandleAllocError ==
    /\ proc = "running"
    /\ \E layout \in Layouts :
       \E cx \in {rust_oom(Cx(heap), layout)} :
        /\ Outcome(cx)
        /\ last' = RecordHook("handle_alloc_error", NULL, cx)
        /\ UNCHANGED <<hookFrame, HOOK, pending>>

NextHook ==
    \/ DoSetOomHook
    \/ DoTakeOomHook
    \/ DoHandleAllocError
    \/ DoBoxNewIn
    \/ DoDropBox

SpecHook == InitHook /\ [][NextHook]_vars

(***************************************************************************)
(* SpecHookThreads: several threads call set_oom_hook, take_oom_hook and   *)
(* handle_alloc_error.  Each makes one atomic access of HOOK (store, swap, *)
(* load) and then works on what it read, so the access of one thread can   *)
(* fall between the access and the return of another.                      *)
(* A write is named <<thread, number of the operation, hook stored>>;      *)
(* last.write is the set_oom_hook whose store is the latest write of HOOK, *)
(* NoWrite when the latest write is the null of a take_oom_hook or there   *)
(* is none.                                                                *)
(***************************************************************************)
Threads == 1..NThreads
NoWrite == <<0, 0, NULL>>

Idle(n, took) ==
    [pc |-> "idle", n |-> n, hook |-> NULL, src |-> NoWrite, took |-> took]

Access(op, t, write) == [op |-> op, t |-> t, write |-> write]

InitHookThreads ==
    /\ heap = [p \in Ptrs |-> Unused]
    /\ self = 1
    /\ buf = NoBuf
    /\ box = NoBox
    /\ proc = "running"
    /\ HOOK = NULL
    /\ pending = NULL
    /\ last = Access("init", 0, NoWrite)
    /\ thr = [t \in Threads |-> Idle(0, <<>>)]

CanStart(t) == proc = "running" /\ thr[t].pc = "idle" /\ thr[t].n < MaxOps

\* set_oom_hook: HOOK.store(hook).
ThreadSetOomHook(t) ==
    /\ CanStart(t)
    /\ \E hook \in Hooks \cup {default_oom_hook} :
        /\ HOOK' = set_oom_hook(HOOK, hook)
        /\ pending' = hook
        /\ last' = Access("set_oom_hook", t, <<t, thr[t].n + 1, hook>>)
        /\ thr' = [thr EXCEPT ![t].n = @ + 1]
        /\ UNCHANGED <<heap, self, buf, box, proc>>

\* take_oom_hook, HOOK.swap(null): the thread holds what it will return.
ThreadTakeSwap(t) ==
    /\ CanStart(t)
    /\ \E r \in {take_oom_hook(HOOK)} :
        /\ HOOK' = r.slot
        /\ pending' = NULL
        /\ last' = Access("take_oom_hook", t, NoWrite)
        /\ thr' = [thr EXCEPT ![t] = [@ EXCEPT !.pc = "took", !.n = @ + 1,
                                                !.hook = r.ret,
                                                !.src = last.write]]
        /\ UNCHANGED <<heap, self, buf, box, proc>>

\* take_oom_hook returns.
ThreadTakeReturn(t) ==
    /\ proc = "running" /\ thr[t].pc = "took"
    /\ thr' = [thr EXCEPT ![t] = Idle(@.n, Append(@.took, <<@.hook, @.src>>))]
    /\ UNCHANGED <<heap, self, buf, box, proc, HOOK, pending, last>>

\* rust_oom, HOOK.load(): the thread holds the hook it will call.
ThreadOomLoad(t) ==
    /\ CanStart(t)
    /\ \E layout \in {Layout(1, 1)} :
       \E cx \in {rust_oom(Cx(heap), layout)} :
        /\ thr' = [thr EXCEPT ![t] = [@ EXCEPT !.pc = "loaded", !.n = @ + 1,
                                                !.hook = cx.res.hook,
                                                !.src = last.write]]
        /\ last' = Access("handle_alloc_error", t, last.write)
        /\ UNCHANGED <<heap, self, buf, box, proc, HOOK, pending>>

\* rust_oom, hook(layout): the hook never returns; a registered one may end
\* the process.
ThreadOomInvoke(t) ==
    /\ proc = "running" /\ thr[t].pc = "loaded"
    /\ thr' = [thr EXCEPT ![t].pc = "inhook"]
    /\ \E ends \in IF thr[t].hook = default_oom_hook THEN {FALSE}
                    ELSE BOOLEAN :
        proc' = IF ends THEN "aborted" ELSE proc
    /\ UNCHANGED <<heap, self, buf, box, HOOK, pending, last>>

NextHookThreads ==
    \E t \in Threads :
        \/ ThreadSetOomHook(t)
        \/ ThreadTakeSwap(t)
        \/ ThreadTakeReturn(t)
        \/ ThreadOomLoad(t)
        \/ ThreadOomInvoke(t)

SpecHookThreads == InitHookThreads /\ [][NextHookThreads]_vars

(***************************************************************************)
(* SpecBox: the owner of one box over allocator self.  It may take the raw *)
(* pointer out of the box and later make the box again from that pointer   *)
(* and the allocator that allocated it, as from_raw_in requires.           *)
(***************************************************************************)
InitBox == InitRawVec

DoBoxIntoRaw ==
    /\ proc = "running" /\ box.st = "live"
    /\ box' = [box EXCEPT !.st = "raw", !.ptr = Box_into_raw(box)]
    /\ last' = [RecordRawVec("Box::into_raw", 0, 0,
                              Rv(Cx(heap), buf, OkUnit)) EXCEPT !.T = box.T]
    /\ UNCHANGED <<heap, buf, proc, rawvecFrame>>

DoBoxFromRawIn ==
    /\ proc = "running" /\ box.st = "raw"
    /\ box' = Box_from_raw_in(box.ptr, box.a, box.T, box.len)
    /\ last' = [RecordRawVec("Box::from_raw_in", 0, 0,
                              Rv(Cx(heap), buf, OkUnit)) EXCEPT !.T = box.T]
    /\ UNCHANGED <<heap, buf, proc, rawvecFrame>>

NextBox ==
    \/ DoBoxNewIn
    \/ DoBoxIntoRaw
    \/ DoBoxFromRawIn
    \/ DoDropBox

SpecBox == InitBox /\ [][NextBox]_vars

(***************************************************************************)
(* SpecLayout: a client that constructs layouts and asks for paddings and  *)
(* arrays, over every usize.                                               *)
(***************************************************************************)
Usize == 0..UsizeMax

\* The layouts that exist: those from_size_align makes.
ValidLayouts ==
    {from_size_align(x[1], x[2]).layout :
        x \in {y \in Usize \X Usize : from_size_align(y[1], y[2]).ok}}

RecordLayout(op, layout, n, res) ==
    [op |-> op, layout |-> layout, n |-> n, res |-> res, calls |-> <<>>]

InitLayout ==
    /\ heap = [p \in Ptrs |-> Unused]
    /\ self = 1
    /\ buf = NoBuf
    /\ box = NoBox
    /\ proc = "running"
    /\ HOOK = NULL
    /\ pending = NULL
    /\ last = NoOp
    /\ thr = <<>>

layoutFrame == <<heap, self, buf, box, proc, HOOK, pending, thr>>

DoFromSizeAlign ==
    \E size \in Usize, align \in Usize :
        /\ last' = RecordLayout("from_size_align", Layout(size, align), 0,
                                from_size_align(size, align))
        /\ UNCHANGED layoutFrame

DoPaddingNeededFor ==
    \E layout \in ValidLayouts, align \in {a \in Usize : is_power_of_two(a)} :
        /\ last' = RecordLayout("padding_needed_for", layout, align,
                                Some(padding_needed_for(layout, align)))
        /\ UNCHANGED layoutFrame

DoRepeat ==
    \E layout \in ValidLayouts, n \in Usize :
        /\ last' = RecordLayout("repeat", layout, n, repeat(layout, n))
        /\ UNCHANGED layoutFrame

\* Layout::new::<T>() is the layout of T: its size is a multiple of its
\* alignment.
DoArray ==
    \E T \in {l \in ValidLayouts : l.size % l.align = 0}, n \in Usize :
        /\ last' = RecordLayout("array", T, n, array(T, n))
        /\ UNCHANGED layoutFrame

NextLayout ==
    \/ DoFromSizeAlign
    \/ DoPaddingNeededFor
    \/ DoRepeat
    \/ DoArray

SpecLayout == InitLayout /\ [][NextLayout]_vars

\* The same process under a scheduler that lets it take a step whenever it
\* has one to take.
SpecHookLive == SpecHook /\ WF_vars(NextHook)

(***************************************************************************)
(* Properties of the AllocRef default methods, over SpecAlloc.             *)
(***************************************************************************)
CallIdx(f) == {i \in 1..Len(last.calls) : last.calls[i].f = f}
InPlaceIdx == CallIdx("grow_in_place") \cup CallIdx("shrink_in_place")

\* realloc returned Ok after the in-place method refused: it went through
\* alloc + copy + dealloc.
CopyFallbackOk ==
    /\ last.op = "realloc"
    /\ last.res.ok
    /\ CallIdx("alloc") # {}

\* C3: when realloc returns Err the block at ptr is still allocated and is
\* exactly as it was (dealloc was not called, no byte changed), and no
\* block is allocated that was not allocated before the call.
C3_ReallocErrKeepsBlock ==
    (last.op = "realloc" /\ ~last.res.ok) =>
        /\ heap[last.ptr] = last.old
        /\ heap[last.ptr].st = "live"
        /\ CallIdx("dealloc") = {}
        /\ LiveSet(heap) = last.live

C3_Witness ==
    /\ last.op = "realloc"
    /\ ~last.res.ok
    /\ CallIdx("alloc") # {}
    /\ last.old.usable >= 2

\* C4: when realloc succeeds through the copy fallback, the returned block
\* is the one alloc returned for the layout (new_size, layout.align()), and
\* its first min(layout.size(), new_size) bytes are those the old block
\* held before the call.
C4_ReallocCopyPreservesPrefix ==
    CopyFallbackOk =>
        LET b == heap[last.res.ptr]
            n == Min(last.layout.size, last.new_size)
        IN  /\ last.res.ptr \in Ptrs \ last.live
            /\ b.st = "live"
            /\ b.size = last.new_size
            /\ b.align = last.layout.align
            /\ \E i \in CallIdx("alloc") :
                /\ last.calls[i].layout = Layout(last.new_size, last.layout.align)
                /\ last.calls[i].res = last.res
            /\ \A i \in 1..n : b.bytes[i] = last.old.bytes[i]

C4_Witness ==
    /\ CopyFallbackOk
    /\ Min(last.layout.size, last.new_size) >= 2
    /\ last.layout.align = 2
    /\ \E i \in 1..2 : last.old.bytes[i] = 0

\* C5: in the copy fallback the old block is deallocated exactly once, with
\* the caller's layout, after the new block was allocated and the bytes
\* were copied; it is not deallocated when realloc returns Err or returns
\* the original pointer.
C5_ReallocDeallocOnceAfterCopy ==
    last.op = "realloc" =>
        /\ CopyFallbackOk =>
            \E i, j, d \in 1..Len(last.calls) :
                /\ i < j /\ j < d
                /\ last.calls[i].f = "alloc" /\ last.calls[i].res.ok
                /\ last.calls[j].f = "copy"
                /\ last.calls[j].src = last.ptr
                /\ last.calls[j].dst = last.res.ptr
                /\ CallIdx("dealloc") = {d}
                /\ last.calls[d].ptr = last.ptr
                /\ last.calls[d].layout = last.layout
                /\ last.calls[d].live
        /\ (~last.res.ok \/ last.res.ptr = last.ptr) => CallIdx("dealloc") = {}

C5_Witness ==
    /\ CopyFallbackOk
    /\ CallIdx("dealloc") # {}
    /\ last.layout.size > last.old.size
    /\ heap[last.ptr].st = "freed"

\* C6: realloc calls grow_in_place (new_size > layout.size()) or
\* shrink_in_place (new_size < layout.size()) before anything else; when
\* that call succeeds it is the only call made and realloc returns the
\* original pointer with the size it reported; alloc is called only right
\* after that call failed.
C6_ReallocTriesInPlaceFirst ==
    last.op = "realloc" =>
        /\ last.new_size > last.layout.size =>
            Len(last.calls) >= 1 /\ last.calls[1].f = "grow_in_place"
        /\ last.new_size < last.layout.size =>
            Len(last.calls) >= 1 /\ last.calls[1].f = "shrink_in_place"
        /\ \A i \in InPlaceIdx :
            /\ i = 1
            /\ last.calls[i].res.ok =>
                /\ Len(last.calls) = 1
                /\ last.res = Ok(last.ptr, last.calls[i].res.size)
                /\ LiveSet(heap) = last.live
        /\ \A i \in CallIdx("alloc") :
            i = 2 /\ 1 \in InPlaceIdx /\ ~last.calls[1].res.ok

C6_Witness ==
    /\ last.op = "realloc"
    /\ 1 \in CallIdx("shrink_in_place")
    /\ last.calls[1].res.ok
    /\ last.res.ptr = last.ptr

\* C7: the default grow_in_place and shrink_in_place return
\* Err(CannotReallocInPlace) whatever they are given and leave the block as
\* it was; the default grow_in_place_zeroed then fails too and writes no
\* byte.
C7_DefaultInPlaceAlwaysFails ==
    ~Overrides(last.a) =>
        /\ \A i \in InPlaceIdx : last.calls[i].res = CannotReallocInPlace
        /\ last.op \in {"grow_in_place", "shrink_in_place",
                        "grow_in_place_zeroed"} =>
            /\ last.res = CannotReallocInPlace
            /\ heap[last.ptr] = last.old
            /\ LiveSet(heap) = last.live
            /\ CallIdx("write_bytes") = {}

C7_Witness ==
    /\ ~Overrides(last.a)
    /\ last.op = "grow_in_place_zeroed"
    /\ last.new_size > last.layout.size
    /\ last.res = CannotReallocInPlace

\* C8: inside realloc and realloc_zeroed a CannotReallocInPlace from an
\* in-place method is followed by the allocation of the fallback and is not
\* what the caller gets; the only error they return is the AllocErr of the
\* failed alloc, and they do not call handle_alloc_error.
C8_CannotReallocInPlaceStaysInside ==
    last.op \in {"realloc", "realloc_zeroed"} =>
        /\ \A i \in InPlaceIdx :
            ~last.calls[i].res.ok =>
                i < Len(last.calls) /\ last.calls[i + 1].f = "alloc"
        /\ ~last.res.ok =>
            /\ last.res = AllocErr
            /\ \E i \in CallIdx("alloc") : last.calls[i].res = AllocErr
        /\ CallIdx("handle_alloc_error") = {}

C8_Witness ==
    /\ last.op = "realloc_zeroed"
    /\ 1 \in CallIdx("grow_in_place")
    /\ last.calls[1].res = CannotReallocInPlace
    /\ last.res.ok
    /\ last.res.ptr # last.ptr

\* C9: alloc_zeroed returns what alloc returned; on success every byte of
\* the returned block, up to the usable size returned, is zero; on failure
\* it returns alloc's error and writes nothing.
C9_AllocZeroedZeroesReturnedBlock ==
    last.op = "alloc_zeroed" =>
        /\ last.calls[1].f = "alloc"
        /\ last.res = last.calls[1].res
        /\ last.res.ok =>
            \A i \in 1..last.res.size : heap[last.res.ptr].bytes[i] = 0
        /\ ~last.res.ok =>
            /\ last.res = AllocErr
            /\ CallIdx("write_bytes") = {}
            /\ LiveSet(heap) = last.live

(***************************************************************************)
(* Properties of Global, over SpecGlobal.                                  *)
(***************************************************************************)
\* C10: Global's alloc, asked for a layout of zero bytes while memory is
\* there, succeeds and returns a non-null pointer: it does not return
\* AllocErr because the size is zero.
C10_GlobalZeroSizedAllocSucceeds ==
    (last.op = "Global.alloc" /\ last.layout.size = 0 /\ last.avail) =>
        last.res.ok /\ last.res.ptr # NULL

(***************************************************************************)
(* Properties of the raw buffer, over SpecRawVec.                          *)
(***************************************************************************)
\* The blocks the buffer, or the box it was converted into, owns now.
Owned ==
    IF buf.st = "live" /\ buf.cap # 0 THEN {buf.ptr}
    ELSE IF box.st = "live" /\ box.len # 0 THEN {box.ptr}
    ELSE {}

\* C1: for a buffer of a non-zero-sized element type, every dealloc call is
\* made on a block that is allocated at that moment (never a second time),
\* by the allocator that allocated it and with a layout that fits it; the
\* only block allocated at any moment is the one the buffer or its box
\* holds, and none is allocated once the buffer or the box is destroyed.
C1_EveryBlockDeallocatedExactlyOnce ==
    (buf.st # "none" /\ buf.T.size # 0) =>
        /\ \A i \in CallIdx("dealloc") :
            last.calls[i].live /\ last.calls[i].own /\ last.calls[i].fit
        /\ LiveSet(heap) = Owned
        /\ (buf.st = "dropped" \/ box.st = "dropped") => LiveSet(heap) = {}

C1_Witness ==
    /\ buf.T.size # 0
    /\ box.st = "dropped"
    /\ last.op = "drop_box"
    /\ CallIdx("dealloc") # {}
    /\ Cardinality({p \in Ptrs : heap[p].st = "freed"}) = MaxBlocks

\* C2: when reserve, reserve_exact or one of their fallible variants fails
\* (the allocator call failed or the capacity overflowed), the buffer's
\* pointer and capacity are what they were before the call, and the block
\* it held is still allocated, unaltered.
C2_ReserveFailureKeepsBuffer ==
    (/\ last.op \in {"reserve", "reserve_exact", "try_reserve",
                     "try_reserve_exact"}
     /\ ~last.res.ok) =>
        /\ buf.ptr = last.buf.ptr
        /\ buf.cap = last.buf.cap
        /\ buf.st = "live"
        /\ LiveSet(heap) = last.live
        /\ buf.ptr \in Ptrs => heap[buf.ptr] = last.old /\ IsLive(heap, buf.ptr)

C2_Witness ==
    /\ last.op = "try_reserve"
    /\ last.res = CollectionAllocErr_AllocErr
    /\ last.buf.cap > 0
    /\ last.buf.T.size # 0
    /\ \E i \in CallIdx("alloc") : last.calls[i].res = AllocErr
    /\ IsLive(heap, buf.ptr)

\* The calls of handle_alloc_error the last operation made.
OomIdx == CallIdx("handle_alloc_error")

\* C11: in with_capacity, double, reserve and Box::new_in, an alloc that
\* returns AllocErr is followed at once by handle_alloc_error with the
\* layout of that request, and nothing follows: the operation does not
\* return normally and leaves buffer and box as they were.
\* handle_alloc_error is called only then.  A buffer of non-zero capacity
\* and a box of non-zero size refer to an allocated block of their size.
C11_InfallibleFailureCallsHook ==
    /\ last.op \in {"with_capacity", "double", "reserve", "Box::new_in"} =>
        /\ \A i \in CallIdx("alloc") :
            ~last.calls[i].res.ok =>
                /\ Len(last.calls) = i + 1
                /\ last.calls[i + 1].f = "handle_alloc_error"
                /\ last.calls[i + 1].layout = last.calls[i].layout
                /\ Fatal(last.res)
                /\ buf = last.buf
                /\ box = last.box
        /\ \A j \in OomIdx :
            /\ j > 1
            /\ last.calls[j - 1].f = "alloc"
            /\ ~last.calls[j - 1].res.ok
    /\ (buf.st = "live" /\ buf.T.size # 0 /\ buf.cap # 0) =>
        /\ IsLive(heap, buf.ptr)
        /\ Fits(heap[buf.ptr], current_layout(buf))
    /\ (box.st = "live" /\ box.T.size * box.len # 0) =>
        /\ IsLive(heap, box.ptr)
        /\ Fits(heap[box.ptr], Layout(box.T.size * box.len, box.T.align))

C11_Witness ==
    /\ last.op = "Box::new_in"
    /\ OomIdx # {}
    /\ last.calls[Len(last.calls)].layout.size = 2
    /\ box.st = "none"
    /\ proc = "aborted"

\* The fallible entry points, and whether the request of the last one
\* overflows: used + additional does not fit a usize, or the byte size of
\* the elements asked for does not.
FallibleOps == {"try_with_capacity", "try_reserve", "try_reserve_exact"}

\* The request overflows: the element count does not fit a usize, or the
\* byte size of the capacity to allocate (for the amortised try_reserve the
\* larger of the count and twice the capacity) does not.
RequestOverflows ==
    LET count  == last.used + last.extra
        target == IF last.op = "try_reserve"
                  THEN Max(count, 2 * last.buf.cap) ELSE count
    IN  \/ count > UsizeMax
        \/ /\ target * last.T.size > UsizeMax
           /\ (last.op = "try_with_capacity" \/ count > last.buf.cap)

\* C12: a fallible entry point whose request overflows returns
\* CapacityOverflow and calls no allocator method; CapacityOverflow is
\* returned only then and without any call, and CollectionAllocErr::AllocErr
\* only after an alloc that returned AllocErr.  LayoutErr converts to
\* CapacityOverflow, AllocErr to CollectionAllocErr::AllocErr, and the two
\* differ.
C12_OverflowDetectedBeforeAllocator ==
    /\ last.op \in FallibleOps =>
        /\ RequestOverflows =>
            /\ last.res = CapacityOverflow
            /\ last.calls = <<>>
            /\ LiveSet(heap) = last.live
            /\ buf = last.buf
        /\ last.res = CapacityOverflow => RequestOverflows /\ last.calls = <<>>
        /\ last.res = CollectionAllocErr_AllocErr =>
            /\ ~RequestOverflows
            /\ \E i \in CallIdx("alloc") : last.calls[i].res = AllocErr
        /\ ~last.res.ok =>
            last.res \in {CapacityOverflow, CollectionAllocErr_AllocErr}
    /\ From_LayoutErr(LayoutErr) = CapacityOverflow
    /\ From_AllocErr(AllocErr) = CollectionAllocErr_AllocErr
    /\ CapacityOverflow # CollectionAllocErr_AllocErr

C12_Witness ==
    /\ last.op = "try_reserve"
    /\ last.res = CapacityOverflow
    /\ last.buf.cap > 0
    /\ last.used + last.extra <= UsizeMax
    /\ last.calls = <<>>

\* C13: a reserve (or try_reserve) that returns leaves capacity >= used +
\* additional; one called with a capacity that already suffices makes no
\* call and leaves the buffer as it was; so a reserve that follows a
\* successful one with the same used and the same or a smaller additional
\* makes no call and changes nothing.
ReserveOps == {"reserve", "try_reserve"}

ReserveEnsures ==
    last.op \in ReserveOps =>
        /\ last.res.ok => buf.cap >= last.used + last.extra
        /\ last.buf.cap >= last.used + last.extra =>
            /\ last.res.ok
            /\ last.calls = <<>>
            /\ buf = last.buf
            /\ LiveSet(heap) = last.live

ReserveAgain ==
    (/\ last.op \in ReserveOps /\ last.res.ok
     /\ last'.op \in ReserveOps
     /\ last'.used = last.used /\ last'.extra <= last.extra) =>
        /\ last'.calls = <<>>
        /\ last'.res.ok
        /\ buf' = buf
        /\ heap' = heap

C13_ReserveEnsuresAndIsIdempotent == []ReserveEnsures /\ [][ReserveAgain]_vars

C13_Witness ==
    /\ last.op = "reserve"
    /\ last.res.ok
    /\ last.calls = <<>>
    /\ last.extra > 0
    /\ last.buf.cap = last.used + last.extra
    /\ IsLive(heap, buf.ptr)

\* C14: a reserve (or try_reserve) that had to grow and returns leaves a
\* capacity of at least max(used + additional, 2 * old capacity), so not
\* less than used + additional, whose byte size fits a usize and is the
\* size of the block the buffer holds; after reserve, reserve_exact and
\* double (fallible forms included, failures included) the capacity is not
\* less than before.
GrowOps == {"reserve", "try_reserve", "reserve_exact", "try_reserve_exact",
            "double"}

C14_ReserveGrowsAmortized ==
    /\ (/\ last.op \in ReserveOps
        /\ last.res.ok
        /\ last.buf.cap < last.used + last.extra) =>
            /\ buf.cap >= Max(last.used + last.extra, 2 * last.buf.cap)
            /\ buf.cap >= last.used + last.extra
            /\ buf.cap * buf.T.size <= UsizeMax
            /\ IsLive(heap, buf.ptr)
            /\ heap[buf.ptr].size = buf.cap * buf.T.size
    /\ last.op \in GrowOps => buf.cap >= last.buf.cap

\* A reserve that grew to twice the capacity, more than what was required.
C14_Witness ==
    /\ last.op = "reserve"
    /\ last.res.ok
    /\ last.buf.cap > 0
    /\ last.buf.cap < last.used + last.extra
    /\ last.used + last.extra < 2 * last.buf.cap
    /\ buf.cap = 2 * last.buf.cap
    /\ IsLive(heap, buf.ptr)

\* C15: a reserve_exact (or try_reserve_exact) called with capacity < used +
\* additional that returns leaves the capacity exactly used + additional,
\* over a live block of that many elements; called with a capacity that
\* suffices it succeeds with no allocator call and changes nothing.
ExactOps == {"reserve_exact", "try_reserve_exact"}

C15_ReserveExactGrowsExactly ==
    last.op \in ExactOps =>
        /\ (last.res.ok /\ last.buf.cap < last.used + last.extra) =>
            /\ buf.cap = last.used + last.extra
            /\ IsLive(heap, buf.ptr)
            /\ heap[buf.ptr].size = buf.cap * buf.T.size
            /\ last.calls # <<>>
        /\ last.buf.cap >= last.used + last.extra =>
            /\ last.res.ok
            /\ last.calls = <<>>
            /\ buf = last.buf
            /\ LiveSet(heap) = last.live

\* A reserve_exact that grew a non-empty buffer by less than doubling.
C15_Witness ==
    /\ last.op = "reserve_exact"
    /\ last.res.ok
    /\ last.buf.cap > 1
    /\ last.buf.cap < last.used + last.extra
    /\ buf.cap = last.used + last.extra
    /\ buf.cap < 2 * last.buf.cap

\* The calls of the last operation that are calls of an allocator method.
AllocatorCalls ==
    {i \in 1..Len(last.calls) :
        last.calls[i].f \in {"alloc", "dealloc", "grow_in_place",
                             "shrink_in_place"}}

\* C16: a double() that returns leaves a capacity strictly greater than
\* before, over a live block of that many elements: 1 for an empty buffer,
\* twice the capacity for a non-empty one.  When the byte size of twice the
\* capacity does not fit a usize, as for every zero-sized element type,
\* double() does not return: it fails with a capacity overflow, with no
\* allocator call and the buffer as it was.  No double() that fails changes
\* the buffer.
C16_DoubleGrowsOrFails ==
    last.op = "double" =>
        /\ last.res.ok =>
            /\ buf.cap > last.buf.cap
            /\ last.buf.cap = 0 => buf.cap = 1
            /\ last.buf.cap > 0 => buf.cap = 2 * last.buf.cap
            /\ buf.cap * buf.T.size <= UsizeMax
            /\ IsLive(heap, buf.ptr)
            /\ heap[buf.ptr].size = buf.cap * buf.T.size
        /\ (last.T.size = 0 \/ 2 * last.buf.cap * last.T.size > UsizeMax) =>
            /\ Fatal(last.res)
            /\ last.res.err = "capacity overflow"
            /\ AllocatorCalls = {}
            /\ LiveSet(heap) = last.live
        /\ ~last.res.ok => Fatal(last.res) /\ buf = last.buf

\* A double() that returned with twice the capacity of a non-empty buffer.
C16_Witness ==
    /\ last.op = "double"
    /\ last.res.ok
    /\ last.buf.cap = 2
    /\ buf.cap = 4
    /\ IsLive(heap, buf.ptr)

IntoBoxTransfers ==
    /\ (last.op = "into_box" /\ last.res.ok) =>
        /\ buf.st = "moved"
        /\ box.st = "live"
        /\ box.len = last.used
        /\ box.a = last.buf.a
        /\ box.T = last.T
        /\ buf.ptr = last.buf.ptr /\ buf.cap = last.buf.cap
        /\ (last.T.size = 0 \/ last.used = last.buf.cap) =>
            /\ last.calls = <<>>
            /\ box.ptr = last.buf.ptr
            /\ LiveSet(heap) = last.live
            /\ box.ptr \in Ptrs => heap[box.ptr] = last.old
        /\ (last.T.size # 0 /\ last.used > 0) =>
            /\ IsLive(heap, box.ptr)
            /\ heap[box.ptr].size = last.used * last.T.size
            /\ \A i \in 1..(last.used * last.T.size) :
                  heap[box.ptr].bytes[i] = last.old.bytes[i]
        /\ \A i \in CallIdx("dealloc") :
            /\ last.calls[i].ptr = last.buf.ptr
            /\ last.calls[i].ptr # box.ptr
            /\ last.used < last.buf.cap
    /\ (buf.st = "moved" /\ box.st = "live" /\ box.T.size # 0) =>
        LiveSet(heap) = IF box.len = 0 THEN {} ELSE {box.ptr}

\* C18, the steps after the move: the moved buffer is never operated on
\* again, so it gives nothing back; the one step left is the destruction of
\* the box, which gives the block of a non-empty box back in one dealloc
\* call, by the box's allocator and with a layout that fits, and leaves no
\* block allocated and nothing more to do.
MovedBufferIsInert ==
    buf.st = "moved" =>
        /\ buf' = buf
        /\ box.st = "live"
        /\ last'.op = "drop_box"
        /\ box'.st = "dropped"
        /\ (box.T.size # 0 /\ box.len # 0) =>
            /\ Len(last'.calls) = 1
            /\ last'.calls[1].f = "dealloc"
            /\ last'.calls[1].ptr = box.ptr
            /\ last'.calls[1].a = box.a
            /\ last'.calls[1].live /\ last'.calls[1].own /\ last'.calls[1].fit
            /\ heap'[box.ptr].st = "freed"
        /\ (box.T.size = 0 \/ box.len = 0) => last'.calls = <<>> /\ heap' = heap
        /\ LiveSet(heap') = {}

\* C18: into_box(used) hands the buffer's pointer, allocator and first used
\* elements to the box and gives nothing back beyond the optional shrink;
\* the moved buffer gives nothing back afterwards; the block is given back
\* exactly once, when the box is destroyed.
C18_IntoBoxTransfersOwnership ==
    []IntoBoxTransfers /\ [][MovedBufferIsInert]_vars

\* The box made by an into_box that had to shrink has been destroyed and
\* its block given back.
C18_Witness ==
    /\ last.op = "drop_box"
    /\ buf.st = "moved"
    /\ box.st = "dropped"
    /\ box.len > 0 /\ box.len < buf.cap
    /\ box.T.size # 0
    /\ box.ptr # buf.ptr
    /\ heap[box.ptr].st = "freed"
    /\ LiveSet(heap) = {}

\* C19: for a zero-sized element type no operation of the buffer (creation,
\* the reserve family, double, shrink_to_fit, into_box, destruction of the
\* buffer or of its box) calls an allocator method, and no block is ever
\* allocated; the capacity of the buffer is always the largest usize; and
\* with_capacity(n) and its fallible variant return, with capacity >= n.
C19_ZeroSizedNeverAllocates ==
    /\ (last.op # "init" /\ last.T.size = 0) =>
        /\ AllocatorCalls = {}
        /\ \A p \in Ptrs : heap[p] = Unused
    /\ (buf.st # "none" /\ buf.T.size = 0) =>
        /\ buf.cap = UsizeMax
        /\ buf.ptr = dangling(buf.T.align)
        /\ \A p \in Ptrs : heap[p] = Unused
    /\ (last.op \in {"with_capacity", "try_with_capacity"}
            /\ last.T.size = 0) =>
        /\ last.res.ok
        /\ buf.st = "live"
        /\ buf.cap >= last.extra

\* A buffer of a zero-sized element type has been destroyed, with no call.
C19_Witness ==
    /\ last.op = "drop"
    /\ last.T.size = 0
    /\ buf.st = "dropped"
    /\ buf.cap = UsizeMax
    /\ last.calls = <<>>

\* The hook rust_oom finds registered.
Registered == IF pending = NULL THEN default_oom_hook ELSE pending

\* C20, the state after an operation: take_oom_hook returned the hook of
\* the most recent set_oom_hook no take_oom_hook had followed, the default
\* hook when there was none, and left no hook registered; and every
\* handle_alloc_error invoked the hook registered at that moment, the
\* default hook when none was.
TakeReturnsAndResets ==
    /\ last.op = "take_oom_hook" =>
        /\ last.hook = IF last.pending = NULL THEN default_oom_hook
                       ELSE last.pending
        /\ HOOK = NULL
        /\ pending = NULL
    /\ last.op = "set_oom_hook" => HOOK = last.hook /\ pending = last.hook
    /\ \A i \in OomIdx : last.calls[i].hook = Registered

\* C20, the step after a take_oom_hook: a handle_alloc_error invokes the
\* default hook, and a second take_oom_hook returns the default hook.
AfterTake ==
    last.op = "take_oom_hook" =>
        /\ last'.op = "take_oom_hook" => last'.hook = default_oom_hook
        /\ \A i \in 1..Len(last'.calls) :
              last'.calls[i].f = "handle_alloc_error" =>
                  last'.calls[i].hook = default_oom_hook

\* C20: take_oom_hook returns the hook of the most recent set_oom_hook that
\* no take_oom_hook has followed, else the default hook, and resets the
\* slot: right after it handle_alloc_error invokes the default hook and a
\* second take_oom_hook returns the default hook.
C20_TakeOomHookReturnsAndResets ==
    []TakeReturnsAndResets /\ [][AfterTake]_vars

\* A second take_oom_hook returned the default hook right after a first
\* one returned a registered hook.
C20_Witness ==
    /\ last.op = "take_oom_hook"
    /\ last.hook = default_oom_hook
    /\ last.prev.op = "take_oom_hook"
    /\ last.prev.hook \in Hooks

\* C21: every invocation of the default hook is followed, sooner or later,
\* by the end of the process.
C21_DefaultHookTerminates == (proc = "looping") ~> (proc = "aborted")

\* What the take_oom_hook calls of thread t returned, the one about to
\* return included: <<hook, the write it came from>>.
Taken(t) ==
    thr[t].took \o (IF thr[t].pc = "took"
                    THEN << <<thr[t].hook, thr[t].src>> >> ELSE <<>>)

HookOf(write) == IF write = NoWrite THEN default_oom_hook ELSE write[3]

\* C22: under every interleaving of the threads, HOOK holds what the latest
\* write stored (the hook of the latest set_oom_hook, or null after a
\* take_oom_hook); the hook a take_oom_hook returns and the hook
\* handle_alloc_error invokes is the hook, whole, of the set_oom_hook that
\* was the latest write when HOOK was accessed, and the default hook when
\* that write was a take's null or there was none; and no two
\* take_oom_hook calls return the hook of the same set_oom_hook call.
C22_HookSlotIsAtomicRegister ==
    /\ HOOK = last.write[3]
    /\ pending = HOOK
    /\ last.write # NoWrite =>
        /\ last.write[1] \in Threads
        /\ last.write[3] \in Hooks \cup {default_oom_hook}
    /\ \A t \in Threads :
        /\ thr[t].pc \in {"took", "loaded", "inhook"} =>
            thr[t].hook = HookOf(thr[t].src)
        /\ \A i \in 1..Len(Taken(t)) :
            /\ Taken(t)[i][1] = HookOf(Taken(t)[i][2])
            /\ \A u \in Threads : \A j \in 1..Len(Taken(u)) :
                (<<t, i>> # <<u, j>> /\ Taken(t)[i][2] # NoWrite) =>
                    Taken(t)[i][2] # Taken(u)[j][2]

\* Two take_oom_hook calls in flight at once after one set_oom_hook: one
\* holds the hook that was set, the other the default hook.
C22_Witness ==
    /\ thr[1].pc = "took" /\ thr[2].pc = "took"
    /\ thr[1].src # NoWrite
    /\ thr[1].hook \in Hooks
    /\ thr[2].hook = default_oom_hook
    /\ HOOK = NULL

\* x is a power of two: positive, with no odd divisor but 1.
IsPowerOfTwo(x) == x > 0 /\ \A d \in 2..x : d % 2 = 1 => x % d # 0

\* size rounded up to a multiple of align > 0, with no bound on the result.
RoundUp(size, align) == ((size + align - 1) \div align) * align

\* C23: Layout::from_size_align(size, align) returns a layout exactly when
\* align is a power of two (0 is not) and size rounded up to a multiple of
\* align fits a usize; the layout has the size and the align given; and
\* otherwise it returns LayoutErr, the error layouterr() gets from (0, 0).
C23_FromSizeAlignValidates ==
    last.op = "from_size_align" =>
        LET size  == last.layout.size
            align == last.layout.align
            valid == /\ IsPowerOfTwo(align)
                     /\ RoundUp(size, align) <= UsizeMax
        IN  /\ last.res.ok <=> valid
            /\ align = 0 => ~last.res.ok
            /\ last.res.ok =>
                /\ last.res.layout.size = size
                /\ last.res.layout.align = align
            /\ ~last.res.ok => last.res = LayoutErr /\ last.res = layouterr

\* A construction refused for its size alone.
C23_Witness ==
    /\ last.op = "from_size_align"
    /\ last.layout.align = 4
    /\ last.layout.size = UsizeMax - 2
    /\ last.res = LayoutErr

\* The layout of the value in the box the last operation worked on.
ValueLayout(bx) == Layout(bx.T.size * bx.len, bx.T.align)

\* C24: Box::new_in calls alloc exactly once, first, with the layout of the
\* value when its size is not zero, and makes no allocator call and uses
\* the dangling pointer when it is zero; into_raw and from_raw_in make no
\* call and keep the pointer and the heap; dropping the box calls dealloc
\* exactly once, on the pointer of the box, with the layout of the value,
\* when its size is not zero, and makes no call when it is zero.  So the
\* block of a box is allocated while the box or its raw pointer exists and
\* no block is once it is dropped.
C24_BoxAllocationBalanced ==
    /\ last.op = "Box::new_in" =>
        /\ last.T.size # 0 =>
            /\ Cardinality(CallIdx("alloc")) = 1
            /\ last.calls[1].f = "alloc"
            /\ last.calls[1].layout = Layout(last.T.size, last.T.align)
            /\ last.calls[1].a = last.a
            /\ CallIdx("dealloc") = {}
        /\ last.T.size = 0 =>
            /\ AllocatorCalls = {}
            /\ last.res.ok
            /\ box.ptr = dangling(last.T.align)
        /\ last.res.ok <=> box.st = "live"
    /\ last.op \in {"Box::into_raw", "Box::from_raw_in"} =>
        /\ last.calls = <<>>
        /\ box.ptr = last.box.ptr
        /\ box.a = last.box.a
        /\ LiveSet(heap) = last.live
        /\ ValueLayout(box).size # 0 =>
            /\ IsLive(heap, box.ptr)
            /\ Fits(heap[box.ptr], ValueLayout(box))
    /\ last.op = "drop_box" =>
        /\ ValueLayout(last.box).size # 0 =>
            /\ Len(last.calls) = 1
            /\ last.calls[1].f = "dealloc"
            /\ last.calls[1].ptr = last.box.ptr
            /\ last.calls[1].a = last.box.a
            /\ last.calls[1].layout = ValueLayout(last.box)
            /\ last.calls[1].live /\ last.calls[1].own /\ last.calls[1].fit
        /\ ValueLayout(last.box).size = 0 => last.calls = <<>>
    /\ (buf.st = "none" /\ box.st \in {"live", "raw"}) =>
        LiveSet(heap) = IF ValueLayout(box).size # 0 THEN {box.ptr} ELSE {}
    /\ (buf.st = "none" /\ box.st \in {"none", "dropped"}) =>
        LiveSet(heap) = {}

\* The box of a value of non-zero size made again by from_raw_in from the
\* pointer into_raw gave: it holds the block new_in allocated.
C24_Witness ==
    /\ last.op = "Box::from_raw_in"
    /\ box.st = "live"
    /\ box.T.size = 2
    /\ IsLive(heap, box.ptr)
    /\ LiveSet(heap) = {box.ptr}


(***************************************************************************)
(* Two buffers on two threads, each holding a clone of one allocator.      *)
(* Cloning an allocator returns a reference to the same allocator, so both *)
(* buffers work on one heap.  The allocator is thread-safe: each of its    *)
(* calls is one atomic step.  A reallocation that moves the block is two   *)
(* such steps, the alloc of the new block and the dealloc of the old one,  *)
(* and the other thread may run between them.                              *)
(***************************************************************************)
clone(a) == a

\* realloc up to the return of alloc: the in-place method of the direction
\* asked for and, when that fails, the alloc of the fallback.
realloc_begin(cx, a, ptr, layout, new_size, o) ==
    LET old_size   == layout.size
        new_layout == Layout(new_size, layout.align)
        g == IF new_size > old_size
             THEN self_grow_in_place(cx, a, ptr, layout, new_size, o)
             ELSE self_shrink_in_place(cx, a, ptr, layout, new_size, o)
    IN  IF g.res.ok THEN [g EXCEPT !.res = Ok(ptr, g.res.size)]
        ELSE alloc(g, a, new_layout, o)

\* realloc from the return of a successful alloc on: copy, then dealloc.
realloc_finish(cx, a, ptr, layout, new_size, new_ptr) ==
    [dealloc(copy_nonoverlapping(cx, ptr, new_ptr,
                                 Min(layout.size, new_size)),
             a, ptr, layout)
        EXCEPT !.res = Ok(new_ptr, new_size)]

BufThread(pc, b, new, new_cap) ==
    [pc |-> pc, buf |-> b, new |-> new, new_cap |-> new_cap]

BufStep(op, t, res) == [op |-> op, t |-> t, res |-> res]

InitBuffers ==
    /\ heap = [p \in Ptrs |-> Unused]
    /\ self \in Allocs
    /\ buf = NoBuf
    /\ box = NoBox
    /\ proc = "running"
    /\ HOOK = NULL
    /\ pending = NULL
    /\ last = BufStep("init", 0, NoRes)
    /\ thr = [t \in Threads |-> BufThread("idle", NoBuf, NULL, 0)]

buffersFrame == <<self, buf, box, proc, HOOK, pending>>

\* The buffer of an element type of non-zero size that holds a block.
Allocated(b) == b.st = "live" /\ b.T.size # 0 /\ b.cap # 0

ThreadWithCapacity(t) ==
    /\ thr[t].pc = "idle" /\ thr[t].buf.st = "none"
    /\ \E T \in ElemTypes, n \in 0..MaxSize, o \in OraclesRawVec :
       \E rv \in {RawVec_try_with_capacity_in(Cx(heap), T, n, clone(self), o)} :
            /\ heap' = rv.heap
            /\ thr' = [thr EXCEPT ![t].buf = rv.buf]
            /\ last' = BufStep("with_capacity", t, rv.res)
            /\ UNCHANGED buffersFrame

\* The first allocator call of a grow or a shrink of the buffer to new_cap
\* elements.  It ends the operation when it fails or works in place.
ThreadResizeAlloc(t) ==
    /\ thr[t].pc = "idle" /\ Allocated(thr[t].buf)
    /\ \E new_cap \in 1..MaxBytes, o \in OraclesRawVec :
       LET b == thr[t].buf IN
       /\ new_cap # b.cap
       /\ array(b.T, new_cap).ok
       /\ \E r \in {realloc_begin(Cx(heap), b.a, b.ptr, current_layout(b),
                                  b.T.size * new_cap, o)} :
            /\ heap' = r.heap
            /\ thr' = [thr EXCEPT ![t] =
                        IF ~r.res.ok THEN @
                        ELSE IF r.calls[Len(r.calls)].f = "alloc"
                        THEN BufThread("moving", b, r.res.ptr, new_cap)
                        ELSE BufThread("idle", [b EXCEPT !.cap = new_cap],
                                       NULL, 0)]
            /\ last' = BufStep("resize", t, r.res)
            /\ UNCHANGED buffersFrame

\* The rest of a resize that moves the block: copy, give the old block
\* back, and only then point the buffer at the new one.
ThreadResizeDealloc(t) ==
    /\ thr[t].pc = "moving"
    /\ LET b == thr[t].buf IN
       \E r \in {realloc_finish(Cx(heap), b.a, b.ptr, current_layout(b),
                                b.T.size * thr[t].new_cap, thr[t].new)} :
            /\ heap' = r.heap
            /\ thr' = [thr EXCEPT ![t] =
                        BufThread("idle",
                                  [b EXCEPT !.ptr = r.res.ptr,
                                            !.cap = thr[t].new_cap],
                                  NULL, 0)]
            /\ last' = BufStep("moved", t, r.res)
            /\ UNCHANGED buffersFrame

ThreadDropBuffer(t) ==
    /\ thr[t].pc = "idle" /\ thr[t].buf.st = "live"
    /\ \E r \in {RawVec_drop(Cx(heap), thr[t].buf)} :
            /\ heap' = r.heap
            /\ thr' = [thr EXCEPT ![t].buf = NoBuf]
            /\ last' = BufStep("drop", t, OkUnit)
            /\ UNCHANGED buffersFrame

NextBuffers ==
    \E t \in Threads :
        \/ ThreadWithCapacity(t)
        \/ ThreadResizeAlloc(t)
        \/ ThreadResizeDealloc(t)
        \/ ThreadDropBuffer(t)

SpecBuffers == InitBuffers /\ [][NextBuffers]_vars

\* The blocks a thread's buffer owns: the one it points at and, while a
\* resize moves it, the new one too.
BlocksOf(t) ==
    (IF Allocated(thr[t].buf) THEN {thr[t].buf.ptr} ELSE {})
        \cup (IF thr[t].pc = "moving" THEN {thr[t].new} ELSE {})

BuffersOwnTheirBlocks ==
    /\ \A t \in Threads :
        /\ BlocksOf(t) \subseteq LiveSet(heap)
        /\ \A p \in BlocksOf(t) : heap[p].by = clone(self)
        /\ Allocated(thr[t].buf)
            => Fits(heap[thr[t].buf.ptr], current_layout(thr[t].buf))
    /\ \A t, u \in Threads : t # u => BlocksOf(t) \cap BlocksOf(u) = {}

OnlyItsThreadChangesABuffer ==
    \A t \in Threads :
        last'.t # t =>
            /\ thr'[t] = thr[t]
            /\ \A p \in BlocksOf(t) : heap'[p] = heap[p]

\* C25: two buffers holding clones of one thread-safe allocator, worked on
\* from two threads: under every interleaving of the allocator calls, a
\* buffer's pointer and capacity are changed only by steps of its own
\* thread, they always describe a live block of the shared allocator that
\* fits the buffer's layout, and no block belongs to both buffers.
C25_ClonedAllocatorBuffersStayApart ==
    []BuffersOwnTheirBlocks /\ [][OnlyItsThreadChangesABuffer]_vars

\* Thread 2 allocated its buffer between the alloc and the dealloc of a
\* resize that moves thread 1's block.
C25_Witness ==
    /\ thr[1].pc = "moving"
    /\ Allocated(thr[1].buf)
    /\ Allocated(thr[2].buf)
    /\ last = BufStep("with_capacity", 2, OkUnit)

(***************************************************************************)
(* realloc and realloc_zeroed asked for the size the layout already has.   *)
(***************************************************************************)
SameSizeRealloc(r) ==
    /\ r.op \in {"realloc", "realloc_zeroed"}
    /\ r.new_size = r.layout.size

SameSizeReturnsThePointer ==
    SameSizeRealloc(last) =>
        /\ last.res = Ok(last.ptr, last.new_size)
        /\ last.calls = <<>>
        /\ heap[last.ptr] = last.old
        /\ LiveSet(heap) = last.live

SameSizeLeavesTheHeap == SameSizeRealloc(last') => heap' = heap

\* C26: the default realloc and realloc_zeroed called with new_size equal
\* to layout.size() return Ok((ptr, new_size)) with the pointer they were
\* given, call no other method of the allocator, and leave every block,
\* its contents included, as it was.
C26_SameSizeReallocIsIdentity ==
    []SameSizeReturnsThePointer /\ [][SameSizeLeavesTheHeap]_vars

\* realloc_zeroed was called on a live block of non-zero size with the size
\* of its layout.
C26_Witness ==
    /\ last.op = "realloc_zeroed"
    /\ last.new_size = last.layout.size
    /\ last.new_size > 0
    /\ IsLive(heap, last.ptr)
    /\ last.res.ok

(***************************************************************************)
(* The bytes of a block grown by realloc_zeroed or grow_in_place_zeroed.   *)
(***************************************************************************)
ReallocZeroedGrowsZeroed ==
    (last.op = "realloc_zeroed" /\ last.res.ok
        /\ last.new_size > last.layout.size) =>
        /\ IsLive(heap, last.res.ptr)
        /\ \A i \in 1..last.new_size :
            heap[last.res.ptr].bytes[i] =
                IF i <= last.layout.size THEN last.old.bytes[i] ELSE 0

GrowInPlaceZeroedZeroesTheGrowth ==
    (last.op = "grow_in_place_zeroed" /\ last.res.ok) =>
        \A i \in 1..Len(heap[last.ptr].bytes) :
            IF last.layout.size < i /\ i <= last.new_size
            THEN heap[last.ptr].bytes[i] = 0
            ELSE i <= Len(last.old.bytes)
                    => heap[last.ptr].bytes[i] = last.old.bytes[i]

\* C27: after a successful realloc_zeroed to a larger size, whether it grew
\* the block in place or moved it, the bytes of the returned block from
\* layout.size() up to new_size are zero and those below layout.size() are
\* the old block's; a successful grow_in_place_zeroed sets the bytes from
\* layout.size() up to new_size to zero and changes no other byte that the
\* block had.
C27_ZeroedGrowthKeepsPrefix ==
    ReallocZeroedGrowsZeroed /\ GrowInPlaceZeroedZeroesTheGrowth

\* realloc_zeroed moved a block with a non-zero first byte to a larger one.
C27_Witness ==
    /\ last.op = "realloc_zeroed"
    /\ last.res.ok
    /\ last.res.ptr # last.ptr
    /\ last.layout.size > 0
    /\ last.new_size > last.layout.size
    /\ last.old.bytes[1] = 1


(***************************************************************************)
(* padding_needed_for against the padding it is meant to compute.          *)
(***************************************************************************)
\* size + p in the arithmetic of the word is a multiple of align.
PadsTo(size, p, align) == ((size + p) % (UsizeMax + 1)) % align = 0

\* C28: for every size of a layout and every power-of-two align,
\* padding_needed_for(align) returns the least p with 0 <= p < align for
\* which size + p, computed modulo the word size, is a multiple of align;
\* it is 0 when size is a multiple of align already.
C28_PaddingIsLeastToAlign ==
    last.op = "padding_needed_for" =>
        LET p     == last.res.val
            size  == last.layout.size
            align == last.n
        IN  /\ 0 <= p /\ p < align
            /\ PadsTo(size, p, align)
            /\ \A q \in 0..(align - 1) : PadsTo(size, q, align) => p <= q
            /\ size % align = 0 => p = 0

\* A size that is 1 above a multiple of 4 is padded by 3, at an alignment
\* larger than the layout's own.
C28_Witness ==
    /\ last.op = "padding_needed_for"
    /\ last.layout = Layout(5, 1)
    /\ last.n = 4
    /\ last.res = Some(3)

(***************************************************************************)
(* repeat and array against the size of n padded copies of a layout.       *)
(***************************************************************************)
\* C29: for every valid layout and every count n, repeat(n), and array of
\* n elements of a type, returns LayoutErr exactly when padded_size * n
\* does not fit the word, padded_size being the layout's size rounded up to
\* its alignment; otherwise it returns a layout of size padded_size * n
\* with the alignment unchanged, and repeat returns padded_size with it as
\* the stride.  The sum of size and padding that gives padded_size fits the
\* word, and the layout returned, which is built without validation, is a
\* valid layout.
C29_RepeatChecksPaddedProduct ==
    last.op \in {"repeat", "array"} =>
        LET size        == last.layout.size
            align       == last.layout.align
            n           == last.n
            padded_size == RoundUp(size, align)
        IN  /\ size + padding_needed_for(last.layout, align) = padded_size
            /\ padded_size <= UsizeMax
            /\ last.res = LayoutErr <=> padded_size * n > UsizeMax
            /\ ~last.res.ok => last.res = LayoutErr
            /\ last.res.ok =>
                /\ last.res.layout = Layout(padded_size * n, align)
                /\ last.op = "repeat" => last.res.offs = padded_size
                /\ IsPowerOfTwo(last.res.layout.align)
                /\ RoundUp(last.res.layout.size, last.res.layout.align)
                        <= UsizeMax
                /\ last.res.layout \in ValidLayouts

\* Two copies of a layout of size 3 and alignment 2: without the padding
\* they would fit the word, with it they do not.
C29_Witness ==
    /\ last.op = "repeat"
    /\ last.layout = Layout(3, 2)
    /\ last.n = 2
    /\ 3 * 2 <= UsizeMax
    /\ last.res = LayoutErr

(***************************************************************************)
(* Clone for Box<[T], A>.  box is the slice being cloned, buf the buffer   *)
(* new.data of the builder, and thr the frame of the call: where it is,    *)
(* new.len, the cursors target (of the loop) and data (of the builder's    *)
(* drop), which are byte offsets from the start of the buffer, and the box *)
(* returned.  drops counts, for each clone made, how often it was dropped. *)
(***************************************************************************)
CloneFrame(pc, len, item, target, data, drops, calls, ret) ==
    [pc |-> pc, len |-> len, item |-> item, target |-> target,
     data |-> data, drops |-> drops, calls |-> calls, ret |-> ret]

NoDrops == [i \in 0..(MaxLen - 1) |-> 0]

\* The boxed slices of n elements of T in a block of allocator a.
SliceBoxes(T, n, a) ==
    [st : {"live"},
     ptr : {IF T.size * n = 0 THEN dangling(T.align) ELSE 1},
     len : {n}, a : {a}, T : {T}]

InitClone ==
    /\ self \in Allocs
    /\ \E T \in ElemTypes, n \in 0..MaxLen, g \in Garbage :
        /\ T.size * n <= MaxBytes
        /\ box \in SliceBoxes(T, n, self)
        /\ heap = [p \in Ptrs |->
                    IF p = box.ptr
                    THEN [st |-> "live", by |-> self, size |-> T.size * n,
                          usable |-> T.size * n, align |-> T.align,
                          bytes |-> [i \in 1..(T.size * n) |-> g[i]]]
                    ELSE Unused]
    /\ buf = NoBuf
    /\ proc = "running"
    /\ HOOK = NULL
    /\ pending = NULL
    /\ last = NoOp
    /\ thr = CloneFrame("idle", 0, 0, 0, 0, NoDrops, <<>>, NoBox)

cloneFrame == <<self, box, HOOK, pending, last>>

\* The element of the slice bx at byte offset off, as bytes.
ElementAt(h, bx, off) ==
    [i \in 1..bx.T.size |-> h[bx.ptr].bytes[off + i]]

\* ptr::write(ptr.add(off), x) into the block at ptr.
ptr_write_at(cx, ptr, off, x) ==
    [heap  |-> IF ptr \in Ptrs
               THEN [cx.heap EXCEPT ![ptr].bytes =
                       [i \in 1..Len(@) |->
                           IF off < i /\ i <= off + Len(x) THEN x[i - off]
                           ELSE @[i]]]
               ELSE cx.heap,
     calls |-> Append(cx.calls, [f |-> "write", ptr |-> ptr, x |-> x]),
     res   |-> cx.res]

\* target.offset(1), data.offset(1): one element further, in bytes.
offset(p, T, count) == p + count * T.size

\* let mut new = BoxBuilder { data: RawVec::with_capacity_in(..), len: 0 }
CloneWithCapacity ==
    /\ thr.pc = "idle" /\ proc = "running"
    /\ \E o \in OraclesFor(RawVec_with_capacity_in(
                    Cx(heap), box.T, box.len, clone(box.a), Refusing).calls) :
       \E rv \in {RawVec_with_capacity_in(Cx(heap), box.T, box.len,
                                           clone(box.a), o)} :
            /\ Outcome(rv)
            /\ heap' = rv.heap
            /\ buf' = rv.buf
            /\ thr' = [thr EXCEPT !.pc = IF rv.res.ok THEN "loop" ELSE "oom",
                                  !.calls = rv.calls]
            /\ UNCHANGED cloneFrame

\* One turn of the loop: item.clone() returns and is written at target, or
\* it panics and the builder is dropped as the stack unwinds.
CloneItem ==
    /\ thr.pc = "loop" /\ thr.item < box.len
    /\ \E panics \in BOOLEAN :
        IF panics
        THEN /\ thr' = [thr EXCEPT !.pc = "dropping", !.data = 0]
             /\ UNCHANGED <<heap, buf, proc, cloneFrame>>
        ELSE \E cx \in {ptr_write_at(Cx(heap), buf.ptr, thr.target,
                            ElementAt(heap, box, offset(0, box.T, thr.item)))} :
             /\ heap' = cx.heap
             /\ thr' = [thr EXCEPT !.target = offset(@, box.T, 1),
                                   !.len = @ + 1,
                                   !.item = @ + 1]
             /\ UNCHANGED <<buf, proc, cloneFrame>>

\* The element a pointer at byte offset off of the buffer points at.
SlotAt(off, T) == IF T.size = 0 THEN 0 ELSE off \div T.size

\* Drop for BoxBuilder, one turn of while data != max: ptr::read(data)
\* makes a value that is dropped at once.
BuilderDropItem ==
    /\ thr.pc = "dropping"
    /\ thr.data # offset(0, box.T, thr.len)
    /\ thr' = [thr EXCEPT !.drops[SlotAt(thr.data, box.T)] = @ + 1,
                          !.data = offset(@, box.T, 1)]
    /\ UNCHANGED <<heap, buf, proc, cloneFrame>>

\* Drop for BoxBuilder, past the loop: the field data is dropped.
BuilderDropData ==
    /\ thr.pc = "dropping"
    /\ thr.data = offset(0, box.T, thr.len)
    /\ \E cx \in {RawVec_drop(Cx(heap), buf)} :
        /\ heap' = cx.heap
        /\ buf' = [buf EXCEPT !.st = "dropped"]
        /\ thr' = [thr EXCEPT !.pc = "unwound", !.calls = @ \o cx.calls]
        /\ UNCHANGED <<proc, cloneFrame>>

\* return new.into_box(): the buffer is read out of the builder, the
\* builder forgotten, and the whole buffer made the box.
CloneIntoBox ==
    /\ thr.pc = "loop" /\ thr.item = box.len
    /\ \E rv \in {RawVec_into_box(Cx(heap), buf, box.len, Refusing)} :
        /\ heap' = rv.heap
        /\ buf' = [buf EXCEPT !.st = "moved"]
        /\ thr' = [thr EXCEPT !.pc = "returned", !.ret = rv.buf,
                              !.calls = @ \o rv.calls]
        /\ UNCHANGED <<proc, cloneFrame>>

NextClone ==
    \/ CloneWithCapacity
    \/ CloneItem
    \/ BuilderDropItem
    \/ BuilderDropData
    \/ CloneIntoBox

SpecClone == InitClone /\ [][NextClone]_vars

\* The calls that gave a block back.
Deallocs(calls) == {i \in 1..Len(calls) : calls[i].f = "dealloc"}

\* C30: Clone for Box<[T], A> is panic-safe for every element type.  When
\* the clone of the element at index k panics, each of the k clones
\* written to the new buffer has been dropped exactly once when the
\* unwinding is over, and the new buffer has been given back exactly once;
\* when no clone panics, no clone is dropped, nothing is given back, and
\* the box returned holds the buffer and its len elements.
C30_BoxSliceCloneIsPanicSafe ==
    /\ \A i \in 0..(MaxLen - 1) : thr.drops[i] <= 1
    /\ thr.pc = "unwound" =>
        /\ \A i \in 0..(MaxLen - 1) :
            thr.drops[i] = IF i < thr.len THEN 1 ELSE 0
        /\ Allocated([buf EXCEPT !.st = "live"]) =>
            /\ Cardinality(Deallocs(thr.calls)) = 1
            /\ ~IsLive(heap, buf.ptr)
        /\ LiveSet(heap) \subseteq {box.ptr}
    /\ thr.pc = "returned" =>
        /\ thr.drops = NoDrops
        /\ Deallocs(thr.calls) = {}
        /\ thr.ret.st = "live"
        /\ thr.ret.ptr = buf.ptr
        /\ thr.ret.len = box.len
        /\ box.T.size * box.len # 0 =>
            /\ IsLive(heap, thr.ret.ptr)
            /\ thr.ret.ptr # box.ptr
            /\ heap[thr.ret.ptr].bytes = heap[box.ptr].bytes
====
